---- MODULE Spec2Model ----
(***************************************************************************)
(* Model of the Reuters RUM agent (src/agent-connection/agent_v2.py):      *)
(* the Query Executor (execute_sql), the Inference Client (_call_api) and  *)
(* the Turn Orchestrator (ask).                                            *)
(*                                                                         *)
(* Text is a sequence of tokens.  A token is one character ("s", "(", " ") *)
(* or one piece of text the code treats as a unit (a tag, a literal of an  *)
(* f-string, an opaque message).                                           *)
(***************************************************************************)
EXTENDS Integers, Sequences, FiniteSets, TLC

\* ------------------------------------------------------------------------
\* Program constants
\* ------------------------------------------------------------------------
MAX_ROWS == 50
MAX_LOOPS == 5

\* ------------------------------------------------------------------------
\* Bounds of the model
\* ------------------------------------------------------------------------
\* longest run of blanks and parentheses put in front of a statement
MaxPrefixLen == 2
\* most tool-call blocks in one model response
MaxToolCalls == 2
\* most pieces (prose, blocks, broken blocks) in a text given to the parser
MaxParts == 3

\* ------------------------------------------------------------------------
\* Python str helpers
\* ------------------------------------------------------------------------
None == "None"

Whitespace == {" ", "\n"}

\* str.upper(), character by character
UpperTable ==
  [c \in {"s", "e", "l", "c", "t", "w", "i", "h", "d", "r", "o", "p", "x"} |->
     CASE c = "s" -> "S" [] c = "e" -> "E" [] c = "l" -> "L" [] c = "c" -> "C"
       [] c = "t" -> "T" [] c = "w" -> "W" [] c = "i" -> "I" [] c = "h" -> "H"
       [] c = "d" -> "D" [] c = "r" -> "R" [] c = "o" -> "O" [] c = "p" -> "P"
       [] c = "x" -> "X"]

upper(s) == [i \in 1..Len(s) |-> IF s[i] \in DOMAIN UpperTable THEN UpperTable[s[i]] ELSE s[i]]

RECURSIVE lstripChars(_, _)
lstripChars(s, chars) ==
  IF s # <<>> /\ Head(s) \in chars THEN lstripChars(Tail(s), chars) ELSE s

RECURSIVE rstripChars(_, _)
rstripChars(s, chars) ==
  IF s # <<>> /\ s[Len(s)] \in chars THEN rstripChars(SubSeq(s, 1, Len(s) - 1), chars) ELSE s

lstrip(s) == lstripChars(s, Whitespace)

strip(s) == rstripChars(lstripChars(s, Whitespace), Whitespace)

startswith(s, prefix) ==
  Len(s) >= Len(prefix) /\ SubSeq(s, 1, Len(prefix)) = prefix

\* s contains part as a contiguous piece
Contains(s, part) ==
  \E i \in 0..(Len(s) - Len(part)) : SubSeq(s, i + 1, i + Len(part)) = part

KW_SELECT == <<"S", "E", "L", "E", "C", "T">>
KW_WITH == <<"W", "I", "T", "H">>

\* ------------------------------------------------------------------------
\* Query Executor: execute_sql
\* ------------------------------------------------------------------------
ALLOWLIST_ERROR == <<"Only SELECT / WITH queries are permitted.">>
UNEXPECTED_PREFIX == <<"Unexpected error: ">>

\* faulty variant: only one leading parenthesis removed
normalised_mut_single(sql) ==
  LET u == upper(strip(sql))
  IN  lstrip(IF u # <<>> /\ Head(u) = "(" THEN Tail(u) ELSE u)

\* the copy of the statement execute_sql inspects
normalised(sql) == lstrip(lstripChars(upper(strip(sql)), {"("}))

\* faulty variant: only the first letter compared
permitted_mut_firstchar(sql) ==
  normalised(sql) # <<>> /\ Head(normalised(sql)) \in {"S", "W"}

\* the allow-list test
permitted(sql) ==
  startswith(normalised(sql), KW_SELECT) \/ startswith(normalised(sql), KW_WITH)

\* What the warehouse does with a statement it is given: the environment of
\* execute_sql.  kind "rows": the statement runs, its full result has `total`
\* rows of columns `cols`, every cell holding `cell`.  kind
\* "ProgrammingError": the engine rejects the statement.  kind "Exception":
\* any other exception, raised when opening the cursor, executing, fetching
\* or reading the description.
CellValues == {"int", "str", "null", "bool", "Decimal", "date", "datetime", "time", "bytes"}

Engine(kind, at, msg, total, cols, cell, elapsed) ==
  [kind |-> kind, at |-> at, msg |-> msg, total |-> total, cols |-> cols,
   cell |-> cell, elapsed |-> elapsed]

RowsOutcomes(totals, cells) ==
  { Engine("rows", "-", <<>>, t, cs, c, e) :
      t \in totals, cs \in {<<"C1">>, <<"C1", "C2">>}, c \in cells, e \in {0, 12} }

ErrorOutcomes ==
  { Engine("ProgrammingError", "execute", <<"SQL compilation error">>, 0, <<>>, "null", 0) }
  \cup { Engine("Exception", at, <<"boom">>, 0, <<>>, "null", 0) :
           at \in {"cursor", "execute", "fetch", "description"} }

\* a row of a DictCursor: column name -> value
Row(cols, cell) == [c \in {cols[i] : i \in 1..Len(cols)} |-> cell]

Min(a, b) == IF a <= b THEN a ELSE b

\* faulty variant: every row fetched
fetchmany_mut_fetchall(eng, n) == [i \in 1..eng.total |-> Row(eng.cols, eng.cell)]

\* faulty variant: the cap is applied one row early
fetchmany_mut_short(eng, n) ==
  [i \in 1..(IF eng.total >= n THEN n - 1 ELSE eng.total) |-> Row(eng.cols, eng.cell)]

\* cur.fetchmany(n) on a result of `total` rows
fetchmany(eng, n) == [i \in 1..Min(eng.total, n) |-> Row(eng.cols, eng.cell)]

\* faulty variant: no `except Exception` clause
execute_sql_mut_reraise(sql, eng) ==
  LET sql_clean == strip(sql)
  IN  IF ~permitted(sql)
      THEN [result |-> [error |-> ALLOWLIST_ERROR], cursor |-> FALSE,
            executed |-> <<>>, inc |-> 0, raises |-> None]
      ELSE IF eng.kind = "rows"
      THEN LET rows == fetchmany(eng, MAX_ROWS)
           IN  [result |-> [columns |-> eng.cols, rows |-> rows, row_count |-> Len(rows),
                            truncated |-> (Len(rows) = MAX_ROWS), elapsed_sec |-> eng.elapsed],
                cursor |-> TRUE, executed |-> <<sql_clean>>, inc |-> 1, raises |-> None]
      ELSE IF eng.kind = "ProgrammingError"
      THEN [result |-> [error |-> eng.msg], cursor |-> TRUE,
            executed |-> <<sql_clean>>, inc |-> 0, raises |-> None]
      ELSE [result |-> [error |-> <<>>], cursor |-> TRUE,
            executed |-> IF eng.at = "cursor" THEN <<>> ELSE <<sql_clean>>,
            inc |-> 0, raises |-> "Exception"]

\* faulty variant: a statement the engine rejects is counted too
execute_sql_mut_countall(sql, eng) ==
  LET sql_clean == strip(sql)
  IN  IF ~permitted(sql)
      THEN [result |-> [error |-> ALLOWLIST_ERROR], cursor |-> FALSE,
            executed |-> <<>>, inc |-> 0, raises |-> None]
      ELSE IF eng.kind = "rows"
      THEN LET rows == fetchmany(eng, MAX_ROWS)
           IN  [result |-> [columns |-> eng.cols, rows |-> rows, row_count |-> Len(rows),
                            truncated |-> (Len(rows) = MAX_ROWS), elapsed_sec |-> eng.elapsed],
                cursor |-> TRUE, executed |-> <<sql_clean>>, inc |-> 1, raises |-> None]
      ELSE IF eng.kind = "ProgrammingError"
      THEN [result |-> [error |-> eng.msg], cursor |-> TRUE,
            executed |-> <<sql_clean>>, inc |-> 1, raises |-> None]
      ELSE [result |-> [error |-> UNEXPECTED_PREFIX \o eng.msg], cursor |-> TRUE,
            executed |-> IF eng.at = "cursor" THEN <<>> ELSE <<sql_clean>>,
            inc |-> 0, raises |-> None]

\* faulty variant: every call is counted, whatever became of it
execute_sql_mut_countattempts(sql, eng) == [execute_sql_mut_countall(sql, eng) EXCEPT !.inc = 1]

\* execute_sql(sql) against a warehouse that behaves as eng.  `result` is the
\* returned dict, `cursor` whether self.conn.cursor() was called, `executed`
\* the statements handed to cur.execute, `inc` what is added to _query_count,
\* `raises` the exception leaving the function (None: it returns).
execute_sql(sql, eng) ==
  LET sql_clean == strip(sql)
  IN  IF ~permitted(sql)
      THEN [result |-> [error |-> ALLOWLIST_ERROR], cursor |-> FALSE,
            executed |-> <<>>, inc |-> 0, raises |-> None]
      ELSE IF eng.kind = "rows"
      THEN LET rows == fetchmany(eng, MAX_ROWS)
           IN  [result |-> [columns |-> eng.cols, rows |-> rows, row_count |-> Len(rows),
                            truncated |-> (Len(rows) = MAX_ROWS), elapsed_sec |-> eng.elapsed],
                cursor |-> TRUE, executed |-> <<sql_clean>>, inc |-> 1, raises |-> None]
      ELSE IF eng.kind = "ProgrammingError"
      THEN [result |-> [error |-> eng.msg], cursor |-> TRUE,
            executed |-> <<sql_clean>>, inc |-> 0, raises |-> None]
      ELSE [result |-> [error |-> UNEXPECTED_PREFIX \o eng.msg], cursor |-> TRUE,
            executed |-> IF eng.at = "cursor" THEN <<>> ELSE <<sql_clean>>,
            inc |-> 0, raises |-> None]

\* ------------------------------------------------------------------------
\* Response Parser: _extract_tool_calls, _strip_tool_calls
\* ------------------------------------------------------------------------
\* the tags, in the spellings re.IGNORECASE accepts
TC_OPEN == {"<tool_call>", "<TOOL_CALL>"}
TC_CLOSE == {"</tool_call>", "</TOOL_CALL>"}
DESC_OPEN == {"<description>", "<DESCRIPTION>"}
DESC_CLOSE == {"</description>", "</DESCRIPTION>"}
SQL_OPEN == {"<sql>", "<SQL>"}
SQL_CLOSE == {"</sql>", "</SQL>"}

\* "Running query" followed by an ellipsis character
DEFAULT_DESCRIPTION == <<"Running query...">>

At(text, i) == IF i >= 1 /\ i <= Len(text) THEN text[i] ELSE None

MinOf(S) == CHOOSE x \in S : \A y \in S : x <= y

\* \s* from position i: the first position at or after i that holds no blank
RECURSIVE SkipWs(_, _)
SkipWs(text, i) ==
  IF i <= Len(text) /\ text[i] \in Whitespace THEN SkipWs(text, i + 1) ELSE i

\* <sql>(.*?)</sql>\s*</tool_call> from position s: the positions k of a
\* closing </sql> that let the rest of the pattern match
SqlEnds(text, s) ==
  IF At(text, s) \in SQL_OPEN
  THEN { k \in (s + 1)..Len(text) :
           text[k] \in SQL_CLOSE /\ At(text, SkipWs(text, k + 1)) \in TC_CLOSE }
  ELSE {}

\* (?:<description>(.*?)</description>\s*)? from position j: the positions d
\* of a closing </description> after which the <sql> part matches
DescEnds(text, j) ==
  IF At(text, j) \in DESC_OPEN
  THEN { d \in (j + 1)..Len(text) :
           text[d] \in DESC_CLOSE /\ SqlEnds(text, SkipWs(text, d + 1)) # {} }
  ELSE {}

\* the match of the whole pattern that starts at position i, if any; has1
\* tells whether the optional description group took part (group(1) is not None)
MatchAt(text, i) ==
  LET j == SkipWs(text, i + 1)
  IN  IF At(text, i) \notin TC_OPEN
      THEN [ok |-> FALSE, has1 |-> FALSE, group1 |-> <<>>, group2 |-> <<>>, end |-> i]
      ELSE IF DescEnds(text, j) # {}
      THEN LET d == MinOf(DescEnds(text, j))
               s == SkipWs(text, d + 1)
               k == MinOf(SqlEnds(text, s))
           IN  [ok |-> TRUE, has1 |-> TRUE, group1 |-> SubSeq(text, j + 1, d - 1),
                group2 |-> SubSeq(text, s + 1, k - 1), end |-> SkipWs(text, k + 1)]
      ELSE IF SqlEnds(text, j) # {}
      THEN LET k == MinOf(SqlEnds(text, j))
           IN  [ok |-> TRUE, has1 |-> FALSE, group1 |-> <<>>,
                group2 |-> SubSeq(text, j + 1, k - 1), end |-> SkipWs(text, k + 1)]
      ELSE [ok |-> FALSE, has1 |-> FALSE, group1 |-> <<>>, group2 |-> <<>>, end |-> i]

\* faulty variant: a description of blanks only is replaced by the default too
DescriptionOf_mut_blankdefault(m) ==
  IF ~m.has1 \/ strip(m.group1) = <<>> THEN strip(DEFAULT_DESCRIPTION) ELSE strip(m.group1)

\* (m.group(1) or "Running query...").strip()
DescriptionOf(m) ==
  IF ~m.has1 \/ m.group1 = <<>> THEN strip(DEFAULT_DESCRIPTION) ELSE strip(m.group1)

\* pattern.finditer(text) from position i on
RECURSIVE ExtractFrom(_, _)
ExtractFrom(text, i) ==
  IF i > Len(text) THEN <<>>
  ELSE LET m == MatchAt(text, i)
       IN  IF m.ok
           THEN <<[description |-> DescriptionOf(m), sql |-> strip(m.group2)]>>
                \o ExtractFrom(text, m.end + 1)
           ELSE ExtractFrom(text, i + 1)

\* faulty variant: the calls in reverse order
_extract_tool_calls_mut_reversed(text) ==
  LET calls == ExtractFrom(text, 1)
  IN  [n \in 1..Len(calls) |-> calls[Len(calls) + 1 - n]]

_extract_tool_calls(text) == ExtractFrom(text, 1)

\* no parser outcome yet
NoParse == [calls |-> <<>>, stripped |-> <<>>, done |-> FALSE]

\* re.sub(r"<tool_call>.*?</tool_call>", "", text) from position i on
RECURSIVE SubFrom(_, _)
SubFrom(text, i) ==
  IF i > Len(text) THEN <<>>
  ELSE LET closes == { c \in (i + 1)..Len(text) : text[c] \in TC_CLOSE }
       IN  IF text[i] \in TC_OPEN /\ closes # {}
           THEN SubFrom(text, MinOf(closes) + 1)
           ELSE <<text[i]>> \o SubFrom(text, i + 1)

\* faulty variant: nothing removed
_strip_tool_calls_mut_keep(text) == strip(text)

\* faulty variant: only what the pattern of _extract_tool_calls matches is removed
RECURSIVE SubMatchedFrom(_, _)
SubMatchedFrom(text, i) ==
  IF i > Len(text) THEN <<>>
  ELSE IF MatchAt(text, i).ok
       THEN SubMatchedFrom(text, MatchAt(text, i).end + 1)
       ELSE <<text[i]>> \o SubMatchedFrom(text, i + 1)

_strip_tool_calls_mut_matchedonly(text) == strip(SubMatchedFrom(text, 1))

_strip_tool_calls(text) == strip(SubFrom(text, 1))

\* ------------------------------------------------------------------------
\* _JSONEncoder and json.dumps of a result dict
\* ------------------------------------------------------------------------
\* how json.dumps with cls=_JSONEncoder writes one cell; "TypeError" when
\* neither the encoder nor json can
_JSONEncoder(cell) ==
  CASE cell \in {"int", "str", "null", "bool"} -> cell
    [] cell \in {"date", "datetime"} -> "isoformat"
    [] cell = "Decimal" -> "float"
    [] OTHER -> "TypeError"

Cells(result) ==
  { result.rows[i][c] : i \in 1..Len(result.rows), c \in {result.columns[n] : n \in 1..Len(result.columns)} }

\* json.dumps(result, cls=_JSONEncoder, indent=2): the document as one token,
\* or raises TypeError
json_dumps(result) ==
  IF \E v \in Cells(result) : _JSONEncoder(v) = "TypeError"
  THEN [raises |-> "TypeError", text |-> <<>>]
  ELSE [raises |-> None,
        text |-> <<ToString([columns |-> result.columns,
                             rows |-> [i \in 1..Len(result.rows) |->
                                         [c \in DOMAIN result.rows[i] |-> _JSONEncoder(result.rows[i][c])]],
                             row_count |-> result.row_count,
                             truncated |-> result.truncated,
                             elapsed_sec |-> result.elapsed_sec])>>]

\* ------------------------------------------------------------------------
\* Inference Client: _call_api
\* ------------------------------------------------------------------------
TR_MODEL_KEY == "anthropic_direct.claude-v4-6-sonnet"
HTTP_BODY_SHOWN == 400

\* A JSON value: t is its type, s its text when a string, d its entries in
\* document order when an object.  A "num" is a non-zero number, a "list" a
\* non-empty array.
JV(t, s, d) == [t |-> t, s |-> s, d |-> d]
JStr(text) == JV("str", text, <<>>)
JNull == JV("null", <<>>, <<>>)
JNum == JV("num", <<>>, <<>>)
JList == JV("list", <<>>, <<>>)
JDict(entries) == JV("dict", <<>>, entries)
Entry(k, v) == [k |-> k, v |-> v]

\* Python truth value
Truthy(v) ==
  CASE v.t = "str" -> v.s # <<>>
    [] v.t = "dict" -> v.d # <<>>
    [] v.t = "null" -> FALSE
    [] OTHER -> TRUE

HasKey(obj, k) == \E i \in 1..Len(obj.d) : obj.d[i].k = k

\* dict.get(k, default)
Get(obj, k, default) ==
  IF HasKey(obj, k)
  THEN obj.d[MinOf({i \in 1..Len(obj.d) : obj.d[i].k = k})].v
  ELSE default

\* faulty variant: the second operand is never used
Or_mut_first(a, b) == a

\* a or b
Or(a, b) == IF Truthy(a) THEN a ELSE b

IsAnswer(v) == v.t = "str" /\ strip(v.s) # <<>>

\* Fallback 1: the first non-empty string among answer_obj.values()
Fallback1(answer_obj) ==
  LET hits == { i \in 1..Len(answer_obj.d) : IsAnswer(answer_obj.d[i].v) }
  IN  IF hits = {} THEN <<>> ELSE strip(answer_obj.d[MinOf(hits)].v.s)

WELL_KNOWN_KEYS == <<"response", "output", "text", "message", "content">>

\* the inner loop of fallback 2 over one source
WellKnown(src) ==
  LET hits == { n \in 1..Len(WELL_KNOWN_KEYS) :
                  IsAnswer(Get(src, WELL_KNOWN_KEYS[n], JStr(<<>>))) }
  IN  IF hits = {} THEN <<>>
      ELSE strip(Get(src, WELL_KNOWN_KEYS[MinOf(hits)], JStr(<<>>)).s)

\* Fallback 2: well-known keys of data, then of result_obj
Fallback2(data, result_obj) ==
  IF WellKnown(data) # <<>> THEN WellKnown(data) ELSE WellKnown(result_obj)

ApiReturn(raises, msg, answer, conv) ==
  [raises |-> raises, msg |-> msg, answer |-> answer, conv |-> conv]

\* lines 285-327: the part of _call_api after a 2xx response whose body
\* decodes to `data`; conv is self._conversation_id before the call
ParseResponse(data, conv) ==
  IF data.t # "dict" THEN ApiReturn("AttributeError", <<>>, <<>>, conv)
  ELSE
  LET conv_id == Or(Get(data, "conversation_id", JNull), Get(data, "connection_id", JNull))
      conv2 == IF Truthy(conv_id) THEN conv_id ELSE conv
      result_obj == Or(Get(data, "result", JNull), JDict(<<>>))
  IN  IF result_obj.t # "dict" THEN ApiReturn("AttributeError", <<>>, <<>>, conv2)
      ELSE
      LET answer_obj == Or(Get(result_obj, "answer", JNull), JDict(<<>>))
      IN  IF answer_obj.t # "dict" THEN ApiReturn("AttributeError", <<>>, <<>>, conv2)
          ELSE
          LET primary == Get(answer_obj, TR_MODEL_KEY, JStr(<<>>))
          IN  IF primary.t # "str" THEN ApiReturn("AttributeError", <<>>, <<>>, conv2)
              ELSE
              LET a0 == strip(primary.s)
                  a1 == IF a0 # <<>> THEN a0 ELSE Fallback1(answer_obj)
                  a2 == IF a1 # <<>> THEN a1 ELSE Fallback2(data, result_obj)
              IN  IF a2 = <<>>
                  THEN ApiReturn("RuntimeError",
                         <<"TR Inference API returned an unrecognised response shape (see debug output above).">>,
                         <<>>, conv2)
                  ELSE ApiReturn(None, <<>>, a2, conv2)

\* What the endpoint does with a request: the environment of _call_api.
\* kind "timeout", "http" (raise_for_status fails: status, body), "request"
\* (any other RequestException), "ok" (2xx; json tells whether the body
\* decodes, data is what it decodes to).
Response(kind, status, body, json, data) ==
  [kind |-> kind, status |-> status, body |-> body, json |-> json, data |-> data]

\* no request made yet
NoResponse == Response("none", "-", <<>>, FALSE, JNull)

\* faulty variant: a timeout is reported as a request failure
_call_api_mut_generic(query, conv, resp) ==
  CASE resp.kind = "timeout" ->
         ApiReturn("RuntimeError", <<"TR Inference API request failed: ">> \o resp.body, <<>>, conv)
    [] resp.kind = "http" ->
         ApiReturn("RuntimeError",
           <<"TR Inference API HTTP error ", resp.status, ": ">>
             \o SubSeq(resp.body, 1, Min(Len(resp.body), HTTP_BODY_SHOWN)), <<>>, conv)
    [] resp.kind = "request" ->
         ApiReturn("RuntimeError", <<"TR Inference API request failed: ">> \o resp.body, <<>>, conv)
    [] resp.kind = "ok" /\ ~resp.json ->
         ApiReturn("JSONDecodeError", <<>>, <<>>, conv)
    [] OTHER -> ParseResponse(resp.data, conv)

\* faulty variant: the token of a response is stored only when the call succeeds
_call_api_mut_atomic(query, conv, resp) ==
  LET r == IF resp.kind = "ok" /\ resp.json
           THEN ParseResponse(resp.data, conv)
           ELSE _call_api_mut_generic(query, conv, resp)
  IN  IF r.raises # None THEN [r EXCEPT !.conv = conv] ELSE r

\* _call_api(query) with self._conversation_id = conv, against an endpoint
\* that answers resp
_call_api(query, conv, resp) ==
  CASE resp.kind = "timeout" ->
         ApiReturn("RuntimeError", <<"TR Inference API request timed out (120 s).">>, <<>>, conv)
    [] resp.kind = "http" ->
         ApiReturn("RuntimeError",
           <<"TR Inference API HTTP error ", resp.status, ": ">>
             \o SubSeq(resp.body, 1, Min(Len(resp.body), HTTP_BODY_SHOWN)), <<>>, conv)
    [] resp.kind = "request" ->
         ApiReturn("RuntimeError", <<"TR Inference API request failed: ">> \o resp.body, <<>>, conv)
    [] resp.kind = "ok" /\ ~resp.json ->
         ApiReturn("JSONDecodeError", <<>>, <<>>, conv)
    [] OTHER -> ParseResponse(resp.data, conv)

\* no _call_api outcome yet
NoApiReturn == ApiReturn("unset", <<>>, <<>>, JNull)

\* ------------------------------------------------------------------------
\* Agent State: the system instructions, the request payload, reset
\* ------------------------------------------------------------------------
\* the suffix appended to every system prompt: it begins and ends with a
\* line break
_SQL_TOOL_INSTRUCTIONS == <<"\n", "[SQL tool instructions]", "\n">>

\* schema_context.SYSTEM_PROMPT
_DEFAULT_SYSTEM_PROMPT == <<"[schema context]">>

\* lines 190-191: the prompt __init__ stores for the argument system_prompt
SystemPrompt(system_prompt) ==
  (IF strip(system_prompt) # <<>> THEN strip(system_prompt) ELSE _DEFAULT_SYSTEM_PROMPT)
    \o <<"\n">> \o _SQL_TOOL_INSTRUCTIONS

\* str.replace(old, ""), left to right
RECURSIVE replace(_, _)
replace(s, old) ==
  IF s = <<>> THEN <<>>
  ELSE IF startswith(s, old) THEN replace(SubSeq(s, Len(old) + 1, Len(s)), old)
  ELSE <<Head(s)>> \o replace(Tail(s), old)

\* line 511: not self._system_prompt.strip().replace(_SQL_TOOL_INSTRUCTIONS, "").strip()
NoPromptDetected(sp) == strip(replace(strip(sp), _SQL_TOOL_INSTRUCTIONS)) = <<>>

\* faulty variant: the system prompt is left out of the request
Payload_mut_noprompt(query, conv, sp) ==
  [query |-> query, conversation_id |-> conv, system_prompt |-> <<>>]

\* lines 243-260: the fields of the request body that vary
Payload(query, conv, sp) ==
  [query |-> query, conversation_id |-> conv, system_prompt |-> sp]

\* a JSON-like value that stands for "nothing yet"
JNone == JV("none", <<>>, <<>>)
NoPayload == [query |-> <<>>, conversation_id |-> JNone, system_prompt |-> <<>>]

\* os.remove(key_file) on a file that is "present" or "absent"; os tells
\* whether the file system lets a present file go
remove(file, os) ==
  IF file = "absent" THEN [file |-> "absent", raises |-> "FileNotFoundError"]
  ELSE IF os = "ok" THEN [file |-> "absent", raises |-> None]
  ELSE [file |-> "present", raises |-> "PermissionError"]

\* faulty variant: the key file is left where it is
reset_mut_keepfile(file, os) ==
  [conv |-> JNull, key_file |-> file, raises |-> None]

\* reset(): the token and the key file afterwards, and the exception that
\* leaves it (None: it returns); FileNotFoundError is passed over
reset(file, os) ==
  LET r == remove(file, os)
  IN  [conv |-> JNull, key_file |-> r.file,
       raises |-> IF r.raises = "PermissionError" THEN r.raises ELSE None]

\* ------------------------------------------------------------------------
\* Turn Orchestrator: ask
\* ------------------------------------------------------------------------
\* the literals of ask, without their leading emoji
FALLBACK_ANSWER == <<"Could not produce a final answer within the allowed iterations.">>
API_ERROR_PREFIX == <<"API error: ">>
NARRATIVE_INSTRUCTION ==
  <<"Using the data above, write a clear, concise business-narrative answer to the original question. Do NOT output any ",
    "<tool_call>", " blocks.">>

\* the piece of results_block appended for a call whose result has 'error'
ErrorEntry(desc, error) ==
  <<"\n", "[Result for: ">> \o desc \o <<"]", "\n", "ERROR: ">> \o error \o <<"\n">>

\* the piece of results_block appended for a call that returned rows; the
\* tokens "[fence]json" and "[fence]" stand for the opening and the closing
\* line of the markdown code fence
ResultEntry(desc, result_json) ==
  <<"\n", "[Result for: ">> \o desc \o <<"]", "\n", "[fence]json", "\n">>
    \o result_json \o <<"\n", "[fence]", "\n">>

\* faulty variant: the earlier-analysis note is written also when the fragment is empty
FollowUpQuery_mut_alwaysnote(q, response, block) ==
  LET narrative_only == strip(_strip_tool_calls(response))
      context_note == <<"\n", "Your earlier analysis:", "\n">> \o narrative_only \o <<"\n">>
  IN  <<"Original question: ">> \o q \o <<"\n">> \o context_note \o <<"\n">>
        \o <<"Snowflake query results:", "\n">> \o block \o <<"\n", "\n">>
        \o NARRATIVE_INSTRUCTION

\* faulty variant: the results block is left out of the payload
FollowUpQuery_mut_noresults(q, response, block) ==
  LET narrative_only == strip(_strip_tool_calls(response))
      context_note == IF narrative_only # <<>>
                      THEN <<"\n", "Your earlier analysis:", "\n">> \o narrative_only \o <<"\n">>
                      ELSE <<>>
  IN  <<"Original question: ">> \o q \o <<"\n">> \o context_note \o <<"\n">>
        \o <<"Snowflake query results:", "\n">> \o <<"\n", "\n">>
        \o NARRATIVE_INSTRUCTION

\* the follow-up payload built at the end of an iteration
FollowUpQuery(q, response, block) ==
  LET narrative_only == strip(_strip_tool_calls(response))
      context_note == IF narrative_only # <<>>
                      THEN <<"\n", "Your earlier analysis:", "\n">> \o narrative_only \o <<"\n">>
                      ELSE <<>>
  IN  <<"Original question: ">> \o q \o <<"\n">> \o context_note \o <<"\n">>
        \o <<"Snowflake query results:", "\n">> \o block \o <<"\n", "\n">>
        \o NARRATIVE_INSTRUCTION

\* faulty variant: the call is tried again
AfterApiError_mut_retry(msg) == [pc |-> "call", ret |-> <<>>]

\* lines 424-425: except RuntimeError as exc: return the prefixed message

AfterApiError(msg) == [pc |-> "done", ret |-> API_ERROR_PREFIX \o msg]

\* faulty variant: one iteration too many
LoopContinues_mut_offbyone(i) == i <= MAX_LOOPS

\* for iteration in range(self.MAX_LOOPS): is there an iteration number i

LoopContinues(i) == i < MAX_LOOPS

VARIABLES
  pc,                \* where the agent is: "idle", or inside ask(): "call", "exec", "done", "raised"
  question,          \* the argument of ask
  current_query,     \* local of ask: the payload of the next inference call
  iteration,         \* ask's loop variable
  response_text,     \* local of ask: the last model response
  tool_calls,        \* local of ask: the calls parsed from response_text
  call_i,            \* position of the inner for loop in tool_calls
  results_block,     \* local of ask
  final_answer,      \* local of ask
  ret,               \* what ask returned (pc = "done")
  exc,               \* the exception that left ask (pc = "raised")
  _query_count,      \* self._query_count
  _conversation_id,  \* self._conversation_id, a JSON value (JNull: None)
  api_calls,         \* history: _call_api invocations of this ask
  queried,           \* history: execute_sql was called in this ask
  execs,             \* history: execute_sql invocations since the last _call_api
  last_call,         \* history: how the last _call_api of this ask ended
  errs,              \* history: the error results of this iteration's tool calls
  ran,               \* history: the statements given to execute_sql since the last _call_api
  fetched,           \* history: execute_sql calls of this ask that returned rows
  _system_prompt,    \* self._system_prompt
  key_file,          \* the .tr_conversation_id file: "present" or "absent"
  chat_pc,           \* where chat() is: "off" (not running), "start", "loop", "closed"
  op,                \* chat session observer: the last operation on the instance
  sent,              \* chat session observer: the payload of the last inference call
  got,               \* chat session observer: the response to the last inference call
  was_reset,         \* chat session observer: reset() was called since the last inference call
  h_sql, h_eng, h_out, \* execute_sql called on its own: argument, warehouse, outcome
  h_resp, h_api,     \* _call_api called on its own: what the endpoint does, outcome
  h_parts, h_parse,  \* the parser called on its own: pieces of the text, outcome
  _connection,       \* backend: the global connection, None or an index of connections
  connections,       \* backend: the warehouse connections made so far, "open" or "closed"
  req_pc,            \* backend: where each request thread is in query_analyst
  req_sql,           \* backend: local sql of query_analyst, per thread
  req_conn,          \* backend: local conn of execute_query, per thread
  req_rows,          \* backend: rows of execute_query (how many were fetched), per thread
  req_status         \* backend: HTTP status of the last response of each thread

agent_vars == <<pc, question, current_query, iteration, response_text, tool_calls, call_i,
                results_block, final_answer, ret, exc, _query_count, _conversation_id,
                api_calls, queried, execs, last_call, errs, ran, fetched>>
\* state of the instance and of chat() that ask() and its callees leave alone
session_vars == <<_system_prompt, key_file, chat_pc>>
\* recorded by the chat session specification only
observer_vars == <<op, sent, got, was_reset>>
harness_vars == <<h_sql, h_eng, h_out, h_resp, h_api, h_parts, h_parse>>
\* state of the HTTP backend (src/backend-python/app.py)
backend_vars == <<_connection, connections, req_pc, req_sql, req_conn, req_rows, req_status>>
vars == <<pc, question, current_query, iteration, response_text, tool_calls, call_i,
          results_block, final_answer, ret, exc, _query_count, _conversation_id,
          api_calls, queried, execs, last_call, errs, ran, fetched,
          _system_prompt, key_file, chat_pc, op, sent, got, was_reset,
          h_sql, h_eng, h_out, h_resp, h_api, h_parts, h_parse,
          _connection, connections, req_pc, req_sql, req_conn, req_rows, req_status>>

\* ------------------------------------------------------------------------
\* Inputs: questions, model responses, warehouse behaviours
\* ------------------------------------------------------------------------
Questions == { <<"Top 5 customers by revenue">> }

SQL_SELECT == <<"s", "e", "l", "e", "c", "t", " ", "1">>
SQL_DROP == <<"D", "R", "O", "P", " ", "T", "A", "B", "L", "E", " ", "x">>

BlockSelect ==
  <<"<tool_call>", "\n", "<description>", "Top customers", "</description>", "\n", "<sql>", "\n">>
    \o SQL_SELECT \o <<"\n", "</sql>", "\n", "</tool_call>">>
BlockDrop == <<"<TOOL_CALL>", "<SQL>">> \o SQL_DROP \o <<"</SQL>", "</TOOL_CALL>">>
\* tool-call markup with no <sql> element: not a tool call
BlockResidual == <<"<tool_call>", "oops", "</tool_call>">>

RECURSIVE BlockRuns(_)
BlockRuns(n) ==
  IF n = 0 THEN {<<>>}
  ELSE BlockRuns(n - 1) \cup { r \o b : r \in BlockRuns(n - 1), b \in {BlockSelect, BlockDrop} }

\* responses that ask for queries (with some prose in front when the first
\* block is BlockSelect), and responses that do not
ToolTexts ==
  { (IF startswith(r, BlockSelect) THEN <<"Checking.", "\n">> ELSE <<>>) \o r :
      r \in BlockRuns(MaxToolCalls) \ {<<>>} }
FinalTexts == { <<"Revenue rose.">>, <<"Revenue rose.", "\n">> \o BlockResidual }
ModelTexts == ToolTexts \cup FinalTexts

\* the confirmed response shape
Body(conv, text) ==
  JDict(<<Entry("conversation_id", conv),
          Entry("result", JDict(<<Entry("answer", JDict(<<Entry(TR_MODEL_KEY, JStr(text))>>))>>))>>)

\* other shapes: not an object; result not an object; the model key not a
\* string; no answer anywhere; the answer under another key of result.answer;
\* the answer under a well-known top-level key
OddBodies ==
  { JList,
    JDict(<<Entry("result", JStr(<<"x">>))>>),
    JDict(<<Entry("conversation_id", JStr(<<"conv-1">>)),
            Entry("result", JDict(<<Entry("answer", JDict(<<Entry(TR_MODEL_KEY, JNull)>>))>>))>>),
    JDict(<<Entry("conversation_id", JStr(<<"conv-1">>)),
            Entry("result", JDict(<<Entry("answer", JDict(<<>>))>>))>>),
    JDict(<<Entry("result", JDict(<<Entry("answer",
              JDict(<<Entry(TR_MODEL_KEY, JStr(<<" ">>)), Entry("other", JStr(<<"Revenue rose.">>))>>))>>))>>),
    JDict(<<Entry("connection_id", JStr(<<"conv-1">>)), Entry("response", JStr(<<" ", "Revenue rose.">>))>>) }

FailedResponses ==
  { Response("timeout", "-", <<>>, FALSE, JNull),
    Response("http", "500", <<"Internal Server Error">>, FALSE, JNull),
    Response("request", "-", <<"connection refused">>, FALSE, JNull) }

AskResponses ==
  FailedResponses
  \cup { Response("ok", "200", <<"not json">>, FALSE, JNull) }
  \cup { Response("ok", "200", <<>>, TRUE, Body(c, t)) :
           c \in {JNull, JStr(<<"conv-1">>)}, t \in ModelTexts }
  \cup { Response("ok", "200", <<>>, TRUE, d) : d \in OddBodies }

AskEngines ==
  { Engine("rows", "-", <<>>, 1, <<"C1">>, c, 12) : c \in {"Decimal", "time"} }
  \cup { Engine("ProgrammingError", "execute", <<"SQL compilation error">>, 0, <<>>, "null", 0) }

\* statements for execute_sql on its own: blanks and parentheses, a keyword
\* in some spelling or something else, a tail
RECURSIVE Prefixes(_)
Prefixes(n) ==
  IF n = 0 THEN {<<>>}
  ELSE Prefixes(n - 1) \cup { p \o <<c>> : p \in Prefixes(n - 1), c \in {" ", "\n", "("} }

Keywords ==
  { <<"s", "e", "l", "e", "c", "t">>, <<"S", "E", "L", "E", "C", "T">>, <<"S", "e", "L", "e", "c", "T">>,
    <<"w", "i", "t", "h">>, <<"W", "I", "T", "H">>, <<"W", "i", "t", "h">>,
    <<"d", "r", "o", "p">>, <<"D", "R", "O", "P">>,
    <<"s", "e", "l">>, <<"w", "i", "t">>, <<>> }

Tails == { <<>>, <<" ", "1">>, <<" ", "1", ")", ")", "\n">>, <<"x">> }

SqlInputs == { p \o k \o t : p \in Prefixes(MaxPrefixLen), k \in Keywords, t \in Tails }

SqlEngines == RowsOutcomes({0, 1, MAX_ROWS - 1, MAX_ROWS, MAX_ROWS + 1}, {"int"}) \cup ErrorOutcomes

\* ------------------------------------------------------------------------
\* Initial state: an agent just constructed
\* ------------------------------------------------------------------------
Unset == [result |-> [error |-> <<>>], cursor |-> FALSE, executed |-> <<>>, inc |-> 0,
          raises |-> "unset"]

InitAgent ==
  /\ pc = "idle"
  /\ question = <<>>
  /\ current_query = <<>>
  /\ iteration = 0
  /\ response_text = <<>>
  /\ tool_calls = <<>>
  /\ call_i = 0
  /\ results_block = <<>>
  /\ final_answer = <<>>
  /\ ret = <<>>
  /\ exc = None
  /\ _query_count = 0
  /\ _conversation_id \in {JNull, JStr(<<"conv-0">>)}
  /\ api_calls = 0
  /\ queried = FALSE
  /\ execs = 0
  /\ last_call = None
  /\ errs = <<>>
  /\ ran = <<>>
  /\ fetched = 0

\* nothing recorded yet by the chat session observers
InitObservers ==
  /\ op = "init"
  /\ sent = NoPayload
  /\ got = NoResponse
  /\ was_reset = FALSE

\* the other harnesses at rest
ApiAtRest ==
  /\ h_resp = Response("timeout", "-", <<>>, FALSE, JNull)
  /\ h_api = NoApiReturn

ParserAtRest ==
  /\ h_parts = <<>>
  /\ h_parse = NoParse

SqlAtRest ==
  /\ h_sql = <<>>
  /\ h_eng = Engine("rows", "-", <<>>, 0, <<"C1">>, "int", 0)
  /\ h_out = Unset

\* line 113: _connection = None
NoConnection == 0

\* the HTTP backend not running
Threads == {"t1", "t2"}

BackendAtRest ==
  /\ _connection = NoConnection
  /\ connections = <<>>
  /\ req_pc = [t \in Threads |-> "idle"]
  /\ req_sql = [t \in Threads |-> <<>>]
  /\ req_conn = [t \in Threads |-> NoConnection]
  /\ req_rows = [t \in Threads |-> 0]
  /\ req_status = [t \in Threads |-> None]

\* an instance built with the default argument and used through ask(); no
\* key file: a token the constructor found came from TR_CONVERSATION_ID
InitDirect ==
  /\ _system_prompt = SystemPrompt(<<>>)
  /\ key_file = "absent"
  /\ chat_pc = "off"

Init ==
  /\ BackendAtRest
  /\ InitAgent
  /\ InitDirect
  /\ InitObservers
  /\ ApiAtRest
  /\ ParserAtRest
  /\ SqlAtRest

\* ------------------------------------------------------------------------
\* ask(question), step by step
\* ------------------------------------------------------------------------
\* lines 412-420: reset the counter, set the first payload, enter the loop
Ask(q) ==
  /\ pc = "idle"
  /\ question' = q
  /\ _query_count' = 0
  /\ final_answer' = FALLBACK_ANSWER
  /\ current_query' = q
  /\ iteration' = 0
  /\ api_calls' = 0
  /\ queried' = FALSE
  /\ execs' = 0
  /\ last_call' = None
  /\ errs' = <<>>
  /\ ran' = <<>>
  /\ fetched' = 0
  /\ IF LoopContinues(0)
     THEN pc' = "call" /\ ret' = ret
     ELSE pc' = "done" /\ ret' = FALLBACK_ANSWER
  /\ UNCHANGED <<response_text, tool_calls, call_i, results_block, exc, _conversation_id>>
  /\ UNCHANGED session_vars
  /\ UNCHANGED harness_vars
  /\ UNCHANGED backend_vars

\* lines 421-436: one inference call and what ask does with its outcome
CallApi(resp) ==
  /\ pc = "call"
  /\ LET r == _call_api(current_query, _conversation_id, resp)
     IN  /\ api_calls' = api_calls + 1
         /\ last_call' = r.raises
         /\ errs' = <<>>
         /\ execs' = 0
         /\ ran' = <<>>
         /\ _conversation_id' = r.conv
         /\ IF r.raises = "RuntimeError"
            THEN /\ ret' = AfterApiError(r.msg).ret
                 /\ pc' = AfterApiError(r.msg).pc
                 /\ UNCHANGED <<response_text, tool_calls, call_i, results_block, final_answer, exc>>
            ELSE IF r.raises # None
            THEN /\ exc' = r.raises
                 /\ pc' = "raised"
                 /\ UNCHANGED <<response_text, tool_calls, call_i, results_block, final_answer, ret>>
            ELSE /\ response_text' = r.answer
                 /\ tool_calls' = _extract_tool_calls(r.answer)
                 /\ IF tool_calls' = <<>>
                    THEN /\ final_answer' = _strip_tool_calls(r.answer)
                         /\ ret' = final_answer'
                         /\ pc' = "done"
                         /\ UNCHANGED <<call_i, results_block, exc>>
                    ELSE /\ results_block' = <<>>
                         /\ call_i' = 1
                         /\ pc' = "exec"
                         /\ UNCHANGED <<final_answer, ret, exc>>
  /\ UNCHANGED <<question, current_query, iteration, _query_count, queried, fetched>>
  /\ UNCHANGED session_vars
  /\ UNCHANGED harness_vars
  /\ UNCHANGED backend_vars

\* lines 437-467: the body of the inner loop for one tool call
ExecuteTool(eng) ==
  /\ pc = "exec"
  /\ call_i <= Len(tool_calls)
  /\ LET call == tool_calls[call_i]
         r == execute_sql(call.sql, eng)
         dumped == json_dumps(r.result)
     IN  /\ queried' = TRUE
         /\ execs' = execs + 1
         /\ ran' = Append(ran, call.sql)
         /\ fetched' = IF r.raises = None /\ "error" \notin DOMAIN r.result
                        THEN fetched + 1 ELSE fetched
         /\ _query_count' = _query_count + r.inc
         /\ IF r.raises # None
            THEN /\ pc' = "raised" /\ exc' = r.raises
                 /\ UNCHANGED <<results_block, call_i, errs>>
            ELSE IF "error" \in DOMAIN r.result
            THEN /\ results_block' = results_block \o ErrorEntry(call.description, r.result.error)
                 /\ errs' = Append(errs, [description |-> call.description, error |-> r.result.error])
                 /\ call_i' = call_i + 1
                 /\ UNCHANGED <<pc, exc>>
            ELSE IF dumped.raises # None
            THEN /\ pc' = "raised" /\ exc' = dumped.raises
                 /\ UNCHANGED <<results_block, call_i, errs>>
            ELSE /\ results_block' = results_block \o ResultEntry(call.description, dumped.text)
                 /\ call_i' = call_i + 1
                 /\ UNCHANGED <<pc, exc, errs>>
  /\ UNCHANGED <<question, current_query, iteration, response_text, tool_calls, final_answer,
                 ret, _conversation_id, api_calls, last_call>>
  /\ UNCHANGED session_vars
  /\ UNCHANGED harness_vars
  /\ UNCHANGED backend_vars

\* lines 472-483: build the follow-up payload; next iteration, or the loop is
\* exhausted and ask returns final_answer
FollowUp ==
  /\ pc = "exec"
  /\ call_i > Len(tool_calls)
  /\ current_query' = FollowUpQuery(question, response_text, results_block)
  /\ iteration' = iteration + 1
  /\ IF LoopContinues(iteration + 1)
     THEN pc' = "call" /\ ret' = ret
     ELSE pc' = "done" /\ ret' = final_answer
  /\ UNCHANGED <<question, response_text, tool_calls, call_i, results_block, final_answer, exc,
                 _query_count, _conversation_id, api_calls, queried, execs, last_call, errs,
                 ran, fetched>>
  /\ UNCHANGED session_vars
  /\ UNCHANGED harness_vars
  /\ UNCHANGED backend_vars

\* ask has returned or raised: its locals are gone, the agent is idle again
Return ==
  /\ pc \in {"done", "raised"}
  /\ pc' = "idle"
  /\ question' = <<>>
  /\ current_query' = <<>>
  /\ iteration' = 0
  /\ response_text' = <<>>
  /\ tool_calls' = <<>>
  /\ call_i' = 0
  /\ results_block' = <<>>
  /\ final_answer' = <<>>
  /\ ret' = <<>>
  /\ exc' = None
  /\ api_calls' = 0
  /\ queried' = FALSE
  /\ execs' = 0
  /\ last_call' = None
  /\ errs' = <<>>
  /\ ran' = <<>>
  /\ fetched' = 0
  /\ UNCHANGED <<_query_count, _conversation_id>>
  /\ UNCHANGED session_vars
  /\ UNCHANGED harness_vars
  /\ UNCHANGED backend_vars

\* ask() driven by its caller; the chat session observers record nothing
Next ==
  \/ \E q \in Questions : Ask(q) /\ UNCHANGED observer_vars
  \/ \E resp \in AskResponses : CallApi(resp) /\ UNCHANGED observer_vars
  \/ \E eng \in AskEngines : ExecuteTool(eng) /\ UNCHANGED observer_vars
  \/ FollowUp /\ UNCHANGED observer_vars
  \/ Return /\ UNCHANGED observer_vars

Spec == Init /\ [][Next]_vars

\* ------------------------------------------------------------------------
\* execute_sql called on its own, on every statement of SqlInputs
\* ------------------------------------------------------------------------
InitSql ==
  /\ BackendAtRest
  /\ InitAgent
  /\ InitDirect
  /\ InitObservers
  /\ ApiAtRest
  /\ ParserAtRest
  /\ h_sql \in SqlInputs
  /\ h_eng \in SqlEngines
  /\ h_out = Unset

CallExecuteSql ==
  /\ h_out.raises = "unset"
  /\ h_out' = execute_sql(h_sql, h_eng)
  /\ _query_count' = _query_count + h_out'.inc
  /\ UNCHANGED <<h_sql, h_eng, h_resp, h_api, h_parts, h_parse>>
  /\ UNCHANGED <<pc, question, current_query, iteration, response_text, tool_calls, call_i,
                 results_block, final_answer, ret, exc, _conversation_id, api_calls,
                 queried, execs, last_call, errs, ran, fetched>>
  /\ UNCHANGED session_vars
  /\ UNCHANGED observer_vars
  /\ UNCHANGED backend_vars

NextSql == CallExecuteSql

SpecSql == InitSql /\ [][NextSql]_vars

\* ------------------------------------------------------------------------
\* chat(): the interactive session, its commands and the questions it
\* passes to ask()
\* ------------------------------------------------------------------------
PromptArgs == { <<>>, <<"You are an analyst.">> }
TypedPrompts == { <<>>, <<"Be brief.">> }

ChatTexts == { <<"Revenue rose.">>, BlockSelect }

\* the confirmed shape with and without a token; the token under
\* connection_id; no token field; a token with no answer anywhere
ChatBodies ==
  { Body(c, t) : c \in {JNull, JStr(<<"conv-1">>)}, t \in ChatTexts }
  \cup { JDict(<<Entry("connection_id", JStr(<<"conv-2">>)),
                  Entry("result", JDict(<<Entry("answer",
                    JDict(<<Entry(TR_MODEL_KEY, JStr(<<"Revenue rose.">>))>>))>>))>>),
          JDict(<<Entry("result", JDict(<<Entry("answer",
                    JDict(<<Entry(TR_MODEL_KEY, JStr(<<"Revenue rose.">>))>>))>>))>>),
          JDict(<<Entry("conversation_id", JStr(<<"conv-1">>)),
                  Entry("result", JDict(<<Entry("answer", JDict(<<>>))>>))>>) }

ChatResponses ==
  { Response("timeout", "-", <<>>, FALSE, JNull) }
  \cup { Response("ok", "200", <<>>, TRUE, d) : d \in ChatBodies }

ChatEngines == { Engine("rows", "-", <<>>, 1, <<"C1">>, "Decimal", 12) }

\* what the file system does when the key file is removed
OsOutcomes == { "ok", "denied" }

InitChat ==
  /\ BackendAtRest
  /\ InitAgent
  /\ _system_prompt \in { SystemPrompt(a) : a \in PromptArgs }
  /\ key_file \in {"absent", "present"}
  /\ chat_pc = "start"
  /\ InitObservers
  /\ ApiAtRest
  /\ ParserAtRest
  /\ SqlAtRest

\* lines 510-573: the prompt is asked for when none is detected, then the
\* banner is printed and the loop entered
ChatStart(typed) ==
  /\ chat_pc = "start"
  /\ _system_prompt' =
       IF NoPromptDetected(_system_prompt)
       THEN (IF strip(typed) # <<>> THEN strip(typed) ELSE _DEFAULT_SYSTEM_PROMPT)
              \o <<"\n">> \o _SQL_TOOL_INSTRUCTIONS
       ELSE _system_prompt
  /\ chat_pc' = "loop"
  /\ op' = "start"
  /\ UNCHANGED <<key_file, sent, got, was_reset>>
  /\ UNCHANGED agent_vars
  /\ UNCHANGED harness_vars
  /\ UNCHANGED backend_vars

\* lines 616-624: a question is passed to ask()
ChatAsk(q) ==
  /\ chat_pc = "loop"
  /\ Ask(q)
  /\ op' = "ask"
  /\ UNCHANGED <<sent, got, was_reset>>

\* an inference call of that ask(): the request that goes out and the
\* response that comes back are recorded
ChatCallApi(resp) ==
  /\ CallApi(resp)
  /\ op' = "call"
  /\ sent' = Payload(current_query, _conversation_id, _system_prompt)
  /\ got' = resp
  /\ was_reset' = FALSE

ChatExecuteTool(eng) ==
  /\ ExecuteTool(eng)
  /\ op' = "exec"
  /\ UNCHANGED <<sent, got, was_reset>>

ChatFollowUp ==
  /\ FollowUp
  /\ op' = "followup"
  /\ UNCHANGED <<sent, got, was_reset>>

\* lines 621-636: ask() returned, or raised and the loop goes on
ChatReturn ==
  /\ Return
  /\ op' = "return"
  /\ UNCHANGED <<sent, got, was_reset>>

\* lines 589-591: the command reset; an exception of reset() leaves chat()
ChatReset(os) ==
  /\ chat_pc = "loop"
  /\ pc = "idle"
  /\ LET r == reset(key_file, os)
     IN  /\ _conversation_id' = r.conv
         /\ key_file' = r.key_file
         /\ chat_pc' = IF r.raises = None THEN "loop" ELSE "crashed"
         /\ op' = IF r.raises = None THEN "reset" ELSE "reset raised"
  /\ was_reset' = TRUE
  /\ UNCHANGED <<_system_prompt, sent, got>>
  /\ UNCHANGED <<pc, question, current_query, iteration, response_text, tool_calls, call_i,
                 results_block, final_answer, ret, exc, _query_count,
                 api_calls, queried, execs, last_call, errs, ran, fetched>>
  /\ UNCHANGED harness_vars
  /\ UNCHANGED backend_vars

\* lines 593-614: the command sysprompt; a prompt that is not empty is
\* stored and the conversation reset
ChatSysPrompt(typed, os) ==
  /\ chat_pc = "loop"
  /\ pc = "idle"
  /\ LET new_sp == strip(typed)
         r == reset(key_file, os)
     IN  IF new_sp # <<>>
         THEN /\ _system_prompt' = new_sp \o <<"\n">> \o _SQL_TOOL_INSTRUCTIONS
              /\ _conversation_id' = r.conv
              /\ key_file' = r.key_file
              /\ chat_pc' = IF r.raises = None THEN "loop" ELSE "crashed"
              /\ op' = IF r.raises = None THEN "sysprompt" ELSE "sysprompt raised"
              /\ was_reset' = TRUE
         ELSE /\ op' = "sysprompt unchanged"
              /\ UNCHANGED <<_system_prompt, _conversation_id, key_file, chat_pc, was_reset>>
  /\ UNCHANGED <<sent, got>>
  /\ UNCHANGED <<pc, question, current_query, iteration, response_text, tool_calls, call_i,
                 results_block, final_answer, ret, exc, _query_count,
                 api_calls, queried, execs, last_call, errs, ran, fetched>>
  /\ UNCHANGED harness_vars
  /\ UNCHANGED backend_vars

\* lines 585-587 and 638: exit; close() closes the warehouse connection
ChatExit ==
  /\ chat_pc = "loop"
  /\ pc = "idle"
  /\ chat_pc' = "closed"
  /\ op' = "close"
  /\ UNCHANGED <<_system_prompt, key_file, sent, got, was_reset>>
  /\ UNCHANGED agent_vars
  /\ UNCHANGED harness_vars
  /\ UNCHANGED backend_vars

NextChat ==
  \/ \E typed \in TypedPrompts : ChatStart(typed)
  \/ \E q \in Questions : ChatAsk(q)
  \/ \E resp \in ChatResponses : ChatCallApi(resp)
  \/ \E eng \in ChatEngines : ChatExecuteTool(eng)
  \/ ChatFollowUp
  \/ ChatReturn
  \/ \E os \in OsOutcomes : ChatReset(os)
  \/ \E typed \in TypedPrompts, os \in OsOutcomes : ChatSysPrompt(typed, os)
  \/ ChatExit

SpecChat == InitChat /\ [][NextChat]_vars

\* ------------------------------------------------------------------------
\* _call_api called on its own, on every response of ApiResponses
\* ------------------------------------------------------------------------
\* an entry when the value is there, nothing when it is JNone
Opt(k, v) == IF v = JNone THEN <<>> ELSE <<Entry(k, v)>>

\* a response body: `primary` under the model key of result.answer, `other`
\* under another key of result.answer, `top` under "output" at top level,
\* `inner` under "content" of result
ApiBody(primary, other, top, inner) ==
  JDict(Opt("output", top)
        \o <<Entry("result",
               JDict(<<Entry("answer", JDict(Opt(TR_MODEL_KEY, primary) \o Opt("other", other)))>>
                     \o Opt("content", inner)))>>)

ApiBodies ==
  { ApiBody(p, o, t, i) :
      p \in {JNone, JNull, JStr(<<>>), JStr(<<" ">>), JStr(<<" ", "A", "\n">>)},
      o \in {JNone, JNum, JStr(<<" ">>), JStr(<<"B", " ">>)},
      t \in {JNone, JList, JStr(<<"C">>)},
      i \in {JNone, JStr(<<" ", "D">>)} }
  \cup { JList,
          JDict(<<>>),
          JDict(<<Entry("result", JNull), Entry("message", JStr(<<"E">>))>>),
          JDict(<<Entry("result", JStr(<<"x">>))>>),
          JDict(<<Entry("result", JDict(<<Entry("answer", JNull), Entry("text", JStr(<<"F">>))>>))>>) }

\* response bodies with a session token field: a token and no answer
\* anywhere; a token under connection_id and a result that is no object; a
\* null conversation_id, a connection_id and null under the model key; a null
\* token and no answer; a token and an answer
TokenBodies ==
  { JDict(<<Entry("conversation_id", JStr(<<"conv-1">>)),
            Entry("result", JDict(<<Entry("answer", JDict(<<>>))>>))>>),
    JDict(<<Entry("connection_id", JStr(<<"conv-2">>)), Entry("result", JStr(<<"x">>))>>),
    JDict(<<Entry("conversation_id", JNull), Entry("connection_id", JStr(<<"conv-2">>)),
            Entry("result", JDict(<<Entry("answer", JDict(<<Entry(TR_MODEL_KEY, JNull)>>))>>))>>),
    JDict(<<Entry("conversation_id", JNull),
            Entry("result", JDict(<<Entry("answer", JDict(<<>>))>>))>>),
    Body(JStr(<<"conv-1">>), <<"A">>) }

\* response bodies of an HTTP error, up to one character more than is shown
ErrorBodies ==
  { [i \in 1..n |-> "x"] : n \in {0, 1, HTTP_BODY_SHOWN, HTTP_BODY_SHOWN + 1} }

ApiResponses ==
  { Response("timeout", "-", <<"timed out">>, FALSE, JNull),
    Response("request", "-", <<"connection refused">>, FALSE, JNull),
    Response("request", "-", <<>>, FALSE, JNull),
    Response("ok", "200", <<"not json">>, FALSE, JNull) }
  \cup { Response("http", st, b, FALSE, JNull) : st \in {"404", "500"}, b \in ErrorBodies }
  \cup { Response("ok", "200", <<>>, TRUE, d) : d \in ApiBodies \cup TokenBodies }

InitApi ==
  /\ BackendAtRest
  /\ InitAgent
  /\ InitDirect
  /\ InitObservers
  /\ ParserAtRest
  /\ SqlAtRest
  /\ h_resp \in ApiResponses
  /\ h_api = NoApiReturn

CallApiAlone ==
  /\ h_api.raises = "unset"
  /\ h_api' = _call_api(<<"q">>, _conversation_id, h_resp)
  /\ _conversation_id' = h_api'.conv
  /\ UNCHANGED <<h_sql, h_eng, h_out, h_resp, h_parts, h_parse>>
  /\ UNCHANGED <<pc, question, current_query, iteration, response_text, tool_calls, call_i,
                 results_block, final_answer, ret, exc, _query_count, api_calls,
                 queried, execs, last_call, errs, ran, fetched>>
  /\ UNCHANGED session_vars
  /\ UNCHANGED observer_vars
  /\ UNCHANGED backend_vars

NextApi == CallApiAlone

SpecApi == InitApi /\ [][NextApi]_vars

\* ------------------------------------------------------------------------
\* The parser called on its own, on texts put together from pieces
\* ------------------------------------------------------------------------
\* a complete block with blanks around its description, lower-case tags
BlockWith ==
  <<"<tool_call>", "<description>", " ", "Second", " ", "</description>", "<sql>",
    "w", "i", "t", "h", " ", "x", "</sql>", " ", "</tool_call>">>
\* an opening tag and a description, no <sql> and no closing tag
BrokenDescribed == <<"<tool_call>", "<description>", "Lost", "</description>">>
\* an opening tag and a statement, no closing tag
BrokenSql == <<"<tool_call>", "<sql>", "s", "e", "l", "e", "c", "t", " ", "9", "</sql>", "junk">>

\* a complete block whose description element is empty
BlockEmptyDescribed ==
  <<"<tool_call>", "<description>", "</description>", "<sql>", "s", "e", "l", "e", "c", "t",
    " ", "2", "</sql>", "</tool_call>">>
\* a complete block whose description element holds blanks only
BlockBlankDescribed ==
  <<"<tool_call>", "<description>", " ", "\n", "</description>", "\n", "<sql>", "s", "e", "l",
    "e", "c", "t", " ", "3", "</sql>", "</tool_call>">>

PartNames ==
  {"prose", "blank", "select", "drop", "with", "residual", "broken described", "broken sql",
   "empty described", "blank described"}

PartText(name) ==
  CASE name = "prose" -> <<"Checking.">>
    [] name = "blank" -> <<" ", "\n">>
    [] name = "select" -> BlockSelect
    [] name = "drop" -> BlockDrop
    [] name = "with" -> BlockWith
    [] name = "residual" -> BlockResidual
    [] name = "broken described" -> BrokenDescribed
    [] name = "broken sql" -> BrokenSql
    [] name = "empty described" -> BlockEmptyDescribed
    [] name = "blank described" -> BlockBlankDescribed

RECURSIVE PartRuns(_)
PartRuns(n) ==
  IF n = 0 THEN {<<>>}
  ELSE PartRuns(n - 1) \cup { r \o <<x>> : r \in PartRuns(n - 1), x \in PartNames }

RECURSIVE TextOf(_)
TextOf(parts) == IF parts = <<>> THEN <<>> ELSE PartText(Head(parts)) \o TextOf(Tail(parts))

InitParse ==
  /\ BackendAtRest
  /\ InitAgent
  /\ InitDirect
  /\ InitObservers
  /\ ApiAtRest
  /\ SqlAtRest
  /\ h_parts \in PartRuns(MaxParts)
  /\ h_parse = NoParse

CallParser ==
  /\ ~h_parse.done
  /\ h_parse' = [calls |-> _extract_tool_calls(TextOf(h_parts)),
                  stripped |-> _strip_tool_calls(TextOf(h_parts)),
                  done |-> TRUE]
  /\ UNCHANGED <<h_sql, h_eng, h_out, h_resp, h_api, h_parts>>
  /\ UNCHANGED agent_vars
  /\ UNCHANGED session_vars
  /\ UNCHANGED observer_vars
  /\ UNCHANGED backend_vars

NextParse == CallParser

SpecParse == InitParse /\ [][NextParse]_vars

\* ------------------------------------------------------------------------
\* The HTTP backend (src/backend-python/app.py): two request threads of the
\* Flask server in query_analyst, the global connection, the warehouse
\* ------------------------------------------------------------------------
\* the opening and closing line of a markdown code fence
FENCES == {"[fence]", "[fence]sql"}

\* lines 180-187: strip the model's text; when it holds a code fence and the
\* pattern of a fenced block matches, take what is inside, stripped
CleanSql(content) ==
  LET text == strip(content)
      fences == { i \in 1..Len(text) : text[i] \in FENCES }
  IN  IF fences = {} THEN text
      ELSE LET first == MinOf(fences)
               closing == { j \in fences : j > first }
           IN  IF closing = {} THEN text
               ELSE strip(SubSeq(text, first + 1, MinOf(closing) - 1))

\* generate_sql_with_claude(question) when the model behaves as llm: the
\* statement returned, or the Exception of line 194
generate_sql_with_claude(llm) ==
  IF llm.raises THEN [raises |-> "Exception", sql |-> <<>>]
  ELSE [raises |-> None, sql |-> CleanSql(llm.content)]

\* faulty variant: a connection of its own for every request
NeedsConnect_mut_perrequest(global, made) == TRUE

\* line 117: _connection is None or _connection.is_closed()
NeedsConnect(global, made) == global = NoConnection \/ made[global] = "closed"

\* execute_query's cursor.fetchall(): every row of the result
fetchall(eng) == [i \in 1..eng.total |-> Row(eng.cols, eng.cell)]

\* what the model may answer to the SQL request: a statement, a fenced
\* statement, a statement that is no query, or a failure of the API
LlmOutputs ==
  { [raises |-> FALSE, content |-> <<" ", "S", "E", "L", "E", "C", "T", " ", "1", "\n">>],
    [raises |-> FALSE, content |-> <<"[fence]sql", "\n">> \o SQL_SELECT \o <<"\n", "[fence]">>],
    [raises |-> FALSE, content |-> SQL_DROP],
    [raises |-> TRUE, content |-> <<>>] }

WebQuestions == { <<>>, <<"Total revenue">> }

\* what the warehouse does with a statement: rows (below and above the
\* core's row limit) or an error
WebEngines ==
  { Engine("rows", "-", <<>>, n, <<"C1">>, "int", 12) : n \in {1, MAX_ROWS + 1} }
  \cup { Engine("ProgrammingError", "execute", <<"SQL compilation error">>, 0, <<>>, "null", 0) }

\* the module imported with no connection made, or the connection of the
\* start-up test (line 421), still open or closed since
InitBackend ==
  /\ InitAgent
  /\ InitDirect
  /\ InitObservers
  /\ ApiAtRest
  /\ ParserAtRest
  /\ SqlAtRest
  /\ \/ _connection = NoConnection /\ connections = <<>>
     \/ _connection = 1 /\ connections \in {<<"open">>, <<"closed">>}
  /\ req_pc = [t \in Threads |-> "idle"]
  /\ req_sql = [t \in Threads |-> <<>>]
  /\ req_conn = [t \in Threads |-> NoConnection]
  /\ req_rows = [t \in Threads |-> 0]
  /\ req_status = [t \in Threads |-> None]

\* the response of query_analyst goes out: the thread is free again
Responds(t, status) ==
  /\ req_pc' = [req_pc EXCEPT ![t] = "idle"]
  /\ req_status' = [req_status EXCEPT ![t] = status]
  /\ req_sql' = [req_sql EXCEPT ![t] = <<>>]
  /\ req_conn' = [req_conn EXCEPT ![t] = NoConnection]
  /\ req_rows' = [req_rows EXCEPT ![t] = 0]

BackendFrame ==
  /\ UNCHANGED agent_vars
  /\ UNCHANGED session_vars
  /\ UNCHANGED observer_vars
  /\ UNCHANGED harness_vars

\* lines 296-303: a request arrives; an empty question is answered with 400
Receive(t, q) ==
  /\ req_pc[t] = "idle"
  /\ IF q = <<>>
     THEN Responds(t, "400")
     ELSE /\ req_pc' = [req_pc EXCEPT ![t] = "generate"]
          /\ req_status' = [req_status EXCEPT ![t] = None]
          /\ UNCHANGED <<req_sql, req_conn, req_rows>>
  /\ UNCHANGED <<_connection, connections>>
  /\ BackendFrame

\* line 313: sql = generate_sql_with_claude(question)
GenerateSql(t, llm) ==
  /\ req_pc[t] = "generate"
  /\ LET r == generate_sql_with_claude(llm)
     IN  IF r.raises # None
         THEN Responds(t, "500")
         ELSE /\ req_sql' = [req_sql EXCEPT ![t] = r.sql]
              /\ req_pc' = [req_pc EXCEPT ![t] = "get_connection"]
              /\ UNCHANGED <<req_conn, req_rows, req_status>>
  /\ UNCHANGED <<_connection, connections>>
  /\ BackendFrame

\* lines 115-117 and 148: execute_query calls get_connection, which tests the global
CheckConnection(t) ==
  /\ req_pc[t] = "get_connection"
  /\ req_pc' = [req_pc EXCEPT ![t] =
                  IF NeedsConnect(_connection, connections) THEN "connect" ELSE "return"]
  /\ UNCHANGED <<_connection, connections, req_sql, req_conn, req_rows, req_status>>
  /\ BackendFrame

\* lines 126-138: snowflake.connector.connect(...) and the assignment of the
\* global; a failure to connect leaves query_analyst through its except clause
Connect(t, ok) ==
  /\ req_pc[t] = "connect"
  /\ IF ok
     THEN /\ connections' = Append(connections, "open")
          /\ _connection' = Len(connections) + 1
          /\ req_pc' = [req_pc EXCEPT ![t] = "return"]
          /\ UNCHANGED <<req_sql, req_conn, req_rows, req_status>>
     ELSE /\ Responds(t, "500")
          /\ UNCHANGED <<_connection, connections>>
  /\ BackendFrame

\* lines 145 and 148: return _connection; conn = get_connection()
ReturnConnection(t) ==
  /\ req_pc[t] = "return"
  /\ req_conn' = [req_conn EXCEPT ![t] = _connection]
  /\ req_pc' = [req_pc EXCEPT ![t] = "cursor"]
  /\ UNCHANGED <<_connection, connections, req_sql, req_rows, req_status>>
  /\ BackendFrame

\* lines 149-151: conn.cursor() and the start of cursor.execute(sql); a
\* closed connection gives no cursor
ExecuteStart(t) ==
  /\ req_pc[t] = "cursor"
  /\ IF connections[req_conn[t]] = "open"
     THEN /\ req_pc' = [req_pc EXCEPT ![t] = "executing"]
          /\ UNCHANGED <<req_sql, req_conn, req_rows, req_status>>
     ELSE Responds(t, "500")
  /\ UNCHANGED <<_connection, connections>>
  /\ BackendFrame

\* lines 151-157: cursor.execute(sql) ends; the rows are fetched and the
\* cursor closed, or the error leaves query_analyst through its except clause
ExecuteEnd(t, eng) ==
  /\ req_pc[t] = "executing"
  /\ IF eng.kind = "rows"
     THEN /\ req_rows' = [req_rows EXCEPT ![t] = Len(fetchall(eng))]
          /\ req_pc' = [req_pc EXCEPT ![t] = "answer"]
          /\ UNCHANGED <<req_sql, req_conn, req_status>>
     ELSE Responds(t, "500")
  /\ UNCHANGED <<_connection, connections>>
  /\ BackendFrame

\* lines 318-341: the values are serialized, the answer is generated (a
\* failure there is replaced by a fixed sentence) and the response returned
Respond(t) ==
  /\ req_pc[t] = "answer"
  /\ Responds(t, "200")
  /\ UNCHANGED <<_connection, connections>>
  /\ BackendFrame

NextBackend ==
  \/ \E t \in Threads, q \in WebQuestions : Receive(t, q)
  \/ \E t \in Threads, llm \in LlmOutputs : GenerateSql(t, llm)
  \/ \E t \in Threads : CheckConnection(t)
  \/ \E t \in Threads, ok \in BOOLEAN : Connect(t, ok)
  \/ \E t \in Threads : ReturnConnection(t)
  \/ \E t \in Threads : ExecuteStart(t)
  \/ \E t \in Threads, eng \in WebEngines : ExecuteEnd(t, eng)
  \/ \E t \in Threads : Respond(t)

SpecBackend == InitBackend /\ [][NextBackend]_vars

\* ------------------------------------------------------------------------
\* Properties
\* ------------------------------------------------------------------------
InAsk == pc \in {"call", "exec", "done", "raised"}
AskEnded == pc \in {"done", "raised"}

\* C1: a single ask() makes at most MAX_LOOPS calls to _call_api, whatever
\* the model responses and the query outcomes are.
Thm_C1_AtMostMaxLoopsCalls == api_calls <= MAX_LOOPS

\* ask() has used its whole budget of inference calls
Wit_C1_BudgetUsed == pc = "done" /\ api_calls = MAX_LOOPS /\ iteration = MAX_LOOPS

\* C2: when each of the MAX_LOOPS responses of an ask() holds a tool call and
\* no inference call fails, ask() ends by returning the budget-exhaustion
\* fallback string, and does not raise.
Cex_C2_FallbackWithoutRaising ==
  (AskEnded /\ api_calls = MAX_LOOPS /\ last_call = None /\ tool_calls # <<>>)
    => (pc = "done" /\ ret = FALLBACK_ANSWER)

\* C3: ask() returns a narrative answer (anything but the API-error string
\* and the fallback) only from a response in which no tool call was found:
\* no query was executed for that response, the answer is the response with
\* its tool-call markup stripped, so that no <tool_call>...</tool_call> pair
\* is left in it, and no inference call followed the one that produced it;
\* and a response with no tool call always ends ask() this way.
IsNarrative(answer) == answer # FALLBACK_ANSWER /\ ~startswith(answer, API_ERROR_PREFIX)

HasToolCallPair(text) ==
  \E i, j \in 1..Len(text) : i < j /\ text[i] \in TC_OPEN /\ text[j] \in TC_CLOSE

Thm_C3_NarrativeOnlyFromToolFreeResponse ==
  /\ (pc = "done" /\ IsNarrative(ret)) =>
       /\ last_call = None
       /\ _extract_tool_calls(response_text) = <<>>
       /\ execs = 0
       /\ ret = _strip_tool_calls(response_text)
       /\ ~HasToolCallPair(ret)
       /\ api_calls = iteration + 1
  /\ (InAsk /\ last_call = None /\ api_calls > 0 /\ tool_calls = <<>>) =>
       (pc = "done" /\ execs = 0 /\ ret = _strip_tool_calls(response_text))

\* a narrative answer returned on a follow-up turn, residual markup removed
Wit_C3_ResidualMarkupStripped ==
  /\ pc = "done"
  /\ iteration >= 1
  /\ Contains(response_text, BlockResidual)
  /\ ret = <<"Revenue rose.">>

\* C4: a transport/API failure of an inference call ends ask() at once with
\* the prefixed error string: no retry, no further inference call, no query
\* after it; a failure of the first call leaves zero queries executed and
\* the query counter at 0.
Thm_C4_ApiErrorReturnsImmediately ==
  last_call = "RuntimeError" =>
    /\ pc = "done"
    /\ startswith(ret, API_ERROR_PREFIX)
    /\ Len(ret) > Len(API_ERROR_PREFIX)
    /\ api_calls = iteration + 1
    /\ execs = 0
    /\ (api_calls = 1 => (~queried /\ _query_count = 0))

\* the first call failed
Wit_C4_FirstCallFailed ==
  /\ pc = "done" /\ last_call = "RuntimeError" /\ api_calls = 1
  /\ ret = API_ERROR_PREFIX \o <<"TR Inference API request timed out (120 s).">>

\* a later call failed, after queries were run
Wit_C4_LaterCallFailed ==
  pc = "done" /\ last_call = "RuntimeError" /\ api_calls = 3 /\ _query_count = 2

\* C5: every failure of the inference call leaves _call_api as a
\* RuntimeError, which ask() turns into the API-error string: _call_api ends
\* in no other exception.
Cex_C5_OnlyRuntimeError == last_call \in {None, "RuntimeError"}

\* C6: a statement that, with leading blanks and parentheses trimmed, does
\* not start with SELECT or WITH is answered with the allow-list error and
\* nothing is sent to the warehouse: no cursor is opened, cur.execute is not
\* called.
SqlReturned == h_out.raises # "unset"

StartsWithKeyword(s) ==
  \/ Len(s) >= 6 /\ upper(SubSeq(s, 1, 6)) = <<"S", "E", "L", "E", "C", "T">>
  \/ Len(s) >= 4 /\ upper(SubSeq(s, 1, 4)) = <<"W", "I", "T", "H">>

TrimBlanksAndParens(s) == lstripChars(s, Whitespace \cup {"("})

Thm_C6_RejectedNeverReachesWarehouse ==
  (SqlReturned /\ ~StartsWithKeyword(TrimBlanksAndParens(h_sql))) =>
    /\ h_out.raises = None
    /\ h_out.result = [error |-> ALLOWLIST_ERROR]
    /\ ~h_out.cursor
    /\ h_out.executed = <<>>
    /\ _query_count = 0

\* a DROP behind a parenthesis was rejected
Wit_C6_DropRejected ==
  /\ SqlReturned
  /\ h_sql = <<"(", " ", "D", "R", "O", "P", " ", "1">>
  /\ h_out.result = [error |-> ALLOWLIST_ERROR]
  /\ ~h_out.cursor

\* C7 as stated: a statement reaches the warehouse if and only if, trimmed
\* and with a single layer of wrapping parentheses removed, it begins with
\* SELECT or WITH in any letter case.
UnwrapOnce(s) ==
  LET t == strip(s)
      a == IF t # <<>> /\ Head(t) = "(" THEN Tail(t) ELSE t
      b == IF a # <<>> /\ t # a /\ a[Len(a)] = ")" THEN SubSeq(a, 1, Len(a) - 1) ELSE a
  IN  strip(b)

Cex_C7_SingleLayerOfParentheses ==
  SqlReturned => (h_out.cursor <=> StartsWithKeyword(UnwrapOnce(h_sql)))

\* C7 as amended: execute_sql hands a statement to the warehouse connection
\* if and only if, trimmed, with every leading parenthesis and then the
\* leading blanks removed, it begins with SELECT or WITH in any letter case;
\* every other statement is rejected before a cursor is opened.  The
\* statement handed over is the trimmed input.
AllLeadingParensRemoved(s) == lstripChars(lstripChars(strip(s), {"("}), Whitespace)

Thm_C7_AllLeadingParentheses ==
  SqlReturned =>
    /\ h_out.cursor <=> StartsWithKeyword(AllLeadingParensRemoved(h_sql))
    /\ ~h_out.cursor => (h_out.result = [error |-> ALLOWLIST_ERROR] /\ h_out.executed = <<>>)
    /\ (h_out.cursor /\ h_eng.at # "cursor") => h_out.executed = <<strip(h_sql)>>

\* a statement behind two parentheses reached the warehouse
Wit_C7_TwoParentheses ==
  /\ SqlReturned
  /\ h_sql = <<"(", "(", "s", "e", "l", "e", "c", "t", " ", "1", ")", ")", "\n">>
  /\ h_out.executed = <<strip(h_sql)>>

\* C8: when a tool call is rejected by the allow-list or fails in the
\* engine, ask() does not abort: the loop goes on to a next inference call
\* whose payload holds the error text, tagged with the description of the
\* call.  errs holds the error results not yet followed by an inference call.
ErrorsInPayload ==
  \A n \in 1..Len(errs) : Contains(current_query, ErrorEntry(errs[n].description, errs[n].error))

Cex_C8_ErrorsReachNextCall ==
  /\ (errs # <<>>) => ~AskEnded
  /\ (pc = "call" /\ iteration >= 1) => ErrorsInPayload

\* C9: no query-level outcome makes ask() raise: ask() raises only when its
\* last inference call did.
Cex_C9_QueryOutcomesAbsorbed == pc = "raised" => last_call # None

\* C10: execute_sql never raises: it returns a dict with an 'error' string or
\* one with columns, rows, row_count, truncated and elapsed_sec; for a
\* ProgrammingError the error is the message of the engine, for any other
\* exception the message behind "Unexpected error: ".
Thm_C10_ExecuteSqlNeverRaises ==
  SqlReturned =>
    /\ h_out.raises = None
    /\ \/ DOMAIN h_out.result = {"error"}
       \/ DOMAIN h_out.result = {"columns", "rows", "row_count", "truncated", "elapsed_sec"}
    /\ (h_out.cursor /\ h_eng.kind = "rows") <=> DOMAIN h_out.result # {"error"}
    /\ (h_out.cursor /\ h_eng.kind = "ProgrammingError") => h_out.result = [error |-> h_eng.msg]
    /\ (h_out.cursor /\ h_eng.kind = "Exception") =>
         h_out.result = [error |-> <<"Unexpected error: ">> \o h_eng.msg]

\* an exception raised by fetchmany came back as an error result
Wit_C10_FetchFailureReturned ==
  /\ SqlReturned
  /\ h_out.cursor
  /\ h_eng.kind = "Exception" /\ h_eng.at = "fetch"
  /\ h_out.raises = None
  /\ h_out.result = [error |-> <<"Unexpected error: ", "boom">>]

\* C11: every successful result of execute_sql has row_count equal to the
\* number of rows it holds, at most MAX_ROWS of them, and truncated is true
\* exactly when row_count is MAX_ROWS.
SqlSucceeded == SqlReturned /\ h_out.raises = None /\ "rows" \in DOMAIN h_out.result

Thm_C11_RowCountWithinLimit ==
  SqlSucceeded =>
    /\ h_out.result.row_count = Len(h_out.result.rows)
    /\ Len(h_out.result.rows) <= 50
    /\ h_out.result.truncated <=> (h_out.result.row_count = 50)

\* a result of more rows than the limit came back cut to the limit
Wit_C11_CutToLimit ==
  /\ SqlSucceeded
  /\ h_eng.total = 51
  /\ h_out.result.row_count = 50
  /\ h_out.result.truncated

\* C12 as stated: a query whose full result has R rows returns row_count = R
\* and truncated = false when R <= MAX_ROWS, and exactly MAX_ROWS rows and
\* truncated = true when R > MAX_ROWS.
Cex_C12_TruncatedOnlyBeyondLimit ==
  SqlSucceeded =>
    /\ h_eng.total <= 50 =>
         (h_out.result.row_count = h_eng.total /\ ~h_out.result.truncated)
    /\ h_eng.total > 50 =>
         (Len(h_out.result.rows) = 50 /\ h_out.result.truncated)

\* C12 as amended: R < MAX_ROWS gives row_count = R and truncated = false;
\* R >= MAX_ROWS gives exactly MAX_ROWS rows and truncated = true, also when
\* R is MAX_ROWS and no row was left behind.
Thm_C12_TruncatedFromLimitOn ==
  SqlSucceeded =>
    /\ h_eng.total < 50 =>
         /\ Len(h_out.result.rows) = h_eng.total
         /\ h_out.result.row_count = h_eng.total
         /\ ~h_out.result.truncated
    /\ h_eng.total >= 50 =>
         /\ Len(h_out.result.rows) = 50
         /\ h_out.result.row_count = 50
         /\ h_out.result.truncated

\* a full result of exactly MAX_ROWS rows is reported as truncated
Wit_C12_ExactlyLimitIsTruncated ==
  /\ SqlSucceeded
  /\ h_eng.total = 50
  /\ h_out.result.row_count = 50
  /\ h_out.result.truncated

RECURSIVE Ascending(_)
Ascending(S) == IF S = {} THEN <<>> ELSE <<MinOf(S)>> \o Ascending(S \ {MinOf(S)})

NextIn(text, p, S) == MinOf({ k \in (p + 1)..Len(text) : text[k] \in S })

LastBefore(text, p, S) ==
  CHOOSE i \in 1..p : text[i] \in S /\ \A k \in (i + 1)..p : text[k] \notin S

\* the statements of a response made of prose and complete blocks, in the
\* order of their <sql> tags
SqlInOrder(text) ==
  LET ps == Ascending({ i \in 1..Len(text) : text[i] \in SQL_OPEN })
  IN  [n \in 1..Len(ps) |->
         strip(SubSeq(text, ps[n] + 1, NextIn(text, ps[n], SQL_CLOSE) - 1))]

\* and the descriptions of their blocks, in the same order
DescriptionsInOrder(text) ==
  LET ps == Ascending({ i \in 1..Len(text) : text[i] \in SQL_OPEN })
  IN  [n \in 1..Len(ps) |->
         LET tc == LastBefore(text, ps[n], TC_OPEN)
             ds == { i \in tc..ps[n] : text[i] \in DESC_OPEN }
         IN  IF ds = {} THEN <<"Running query...">>
             ELSE strip(SubSeq(text, MinOf(ds) + 1, NextIn(text, MinOf(ds), DESC_CLOSE) - 1))]

\* the descriptions that head the entries of a results block, in order
Headers(block) ==
  LET ps == Ascending({ i \in 1..Len(block) : block[i] = "[Result for: " })
  IN  [n \in 1..Len(ps) |-> SubSeq(block, ps[n] + 1, NextIn(block, ps[n], {"]"}) - 1)]

FirstN(seq, n) == SubSeq(seq, 1, n)

Thm_C14_ToolCallsRunInDocumentOrder ==
  /\ pc = "exec" =>
       /\ ran = FirstN(SqlInOrder(response_text), call_i - 1)
       /\ Headers(results_block) = FirstN(DescriptionsInOrder(response_text), call_i - 1)
  /\ (pc = "raised" /\ last_call = None) =>
       /\ ran = FirstN(SqlInOrder(response_text), call_i)
       /\ Headers(results_block) = FirstN(DescriptionsInOrder(response_text), call_i - 1)
  /\ ((pc = "call" /\ iteration >= 1) \/ (pc = "done" /\ last_call = None /\ tool_calls # <<>>)) =>
       /\ ran # <<>>
       /\ ran = SqlInOrder(response_text)
       /\ Headers(results_block) = DescriptionsInOrder(response_text)

\* two different tool calls of one response have run, in their order
Wit_C14_TwoCallsInOrder ==
  /\ pc = "call"
  /\ iteration >= 1
  /\ ran = <<SQL_DROP, SQL_SELECT>>
  /\ Headers(results_block) = <<(<<"Running query...">>), (<<"Top customers">>)>>

\* C15: the session token is reused across turns until reset: only reset()
\* (also when the sysprompt command calls it) takes a stored token away,
\* every inference call carries the token stored at that moment, the agent
\* holds one token or none, after reset() has returned the stored token is
\* none and the key file is gone, and the first inference call after a
\* reset carries no token.
CallStep == api_calls' = api_calls + 1

Thm_C15_TokenKeptUntilReset ==
  /\ [](op \in {"reset", "sysprompt"} => (_conversation_id = JNull /\ key_file = "absent"))
  /\ [](_conversation_id.t \in {"null", "str"})
  /\ [][(_conversation_id # JNull /\ _conversation_id' = JNull) =>
          op' \in {"reset", "reset raised", "sysprompt", "sysprompt raised"}]_vars
  /\ [][CallStep => sent'.conversation_id = _conversation_id]_vars
  /\ [][(CallStep /\ was_reset) => sent'.conversation_id = JNull]_vars

\* a token that inference calls carried was taken away by the reset command
Wit_C15_ResetAfterUse ==
  /\ op = "reset"
  /\ sent.conversation_id = JStr(<<"conv-1">>)
  /\ _conversation_id = JNull
  /\ key_file = "absent"

\* the session token a response carries at top level, under either name
TokenFields == <<"conversation_id", "connection_id">>

FieldToken(data, k) ==
  { data.d[i].v : i \in { n \in 1..Len(data.d) : data.d[n].k = k /\ data.d[n].v.t = "str"
                                                   /\ data.d[n].v.s # <<>> } }

HasToken(data) == \E n \in 1..Len(TokenFields) : FieldToken(data, TokenFields[n]) # {}

TokenIn(data) ==
  LET n == MinOf({ m \in 1..Len(TokenFields) : FieldToken(data, TokenFields[m]) # {} })
  IN  CHOOSE v \in FieldToken(data, TokenFields[n]) : TRUE

\* C16 as stated: a token carried by a response replaces the stored token
\* and goes out with the next call; after a response whose token is null or
\* absent the next call goes out without a token.
Cex_C16_NoTokenMeansNoSession ==
  [][(CallStep /\ ~was_reset /\ got.kind = "ok") =>
       sent'.conversation_id = IF HasToken(got.data) THEN TokenIn(got.data) ELSE JNull]_vars

\* C16 as amended: a token carried by a response under conversation_id or
\* connection_id replaces the stored token and goes out with the next call;
\* a response whose token is null or absent raises no error on that account
\* and leaves the stored token as it was, so the next call carries the token
\* the call before carried (none only if none was stored).
Thm_C16_NoTokenKeepsStoredToken ==
  /\ []((got.kind = "ok" /\ ~was_reset) =>
          _conversation_id = IF HasToken(got.data) THEN TokenIn(got.data)
                             ELSE sent.conversation_id)
  /\ [][(CallStep /\ ~was_reset /\ got.kind = "ok") =>
          sent'.conversation_id = IF HasToken(got.data) THEN TokenIn(got.data)
                                  ELSE sent.conversation_id]_vars
  /\ []((op = "call" /\ got.kind = "ok" /\ ~HasToken(got.data)) => last_call = None)

\* a call carried the token of an earlier response, its own response had
\* none, and the token is still stored
Wit_C16_TokenKeptAfterNullToken ==
  /\ op = "call"
  /\ sent.conversation_id = JStr(<<"conv-2">>)
  /\ got.kind = "ok"
  /\ ~HasToken(got.data)
  /\ _conversation_id = JStr(<<"conv-2">>)

\* C17 as stated: no operation on the instance changes _system_prompt after
\* construction, no command of the chat loop either.
Cex_C17_PromptNeverChanges == [][_system_prompt' = _system_prompt]_vars

\* C17 as amended: _system_prompt changes only by the sysprompt command of
\* the chat loop given a prompt that is not empty, between two questions,
\* and that command resets the conversation; ask, _call_api, execute_sql,
\* reset, close and the start of chat leave it alone, every inference call
\* sends the prompt stored at that moment, and so all calls of one ask()
\* send the same one.
Thm_C17_PromptChangesOnlyBySysprompt ==
  /\ [][_system_prompt' # _system_prompt =>
          /\ op' \in {"sysprompt", "sysprompt raised"}
          /\ pc = "idle" /\ pc' = "idle"
          /\ _conversation_id' = JNull]_vars
  /\ [][CallStep => sent'.system_prompt = _system_prompt]_vars
  /\ []((InAsk /\ api_calls >= 1) => sent.system_prompt = _system_prompt)

\* an inference call sent the prompt typed at the sysprompt command
Wit_C17_NewPromptSent ==
  /\ op = "call"
  /\ sent.system_prompt = <<"Be brief.", "\n", "\n", "[SQL tool instructions]", "\n">>
  /\ sent.conversation_id = JNull

\* C18: _call_api finds the answer by trying in order, stopping at the first
\* string that is not blank: the model key of result.answer; the values of
\* result.answer; response, output, text, message, content at top level and
\* then under result.  What it returns is that string, trimmed; when none
\* is found it raises and returns nothing.
ApiDone == h_api.raises # "unset"

Field(obj, k) ==
  IF obj.t = "dict" /\ \E i \in 1..Len(obj.d) : obj.d[i].k = k
  THEN obj.d[CHOOSE i \in 1..Len(obj.d) : obj.d[i].k = k].v
  ELSE JNone

ValuesOf(obj) == IF obj.t = "dict" THEN [i \in 1..Len(obj.d) |-> obj.d[i].v] ELSE <<>>

AnswerCandidates(data) ==
  LET result == Field(data, "result")
      answer == Field(result, "answer")
      names == <<"response", "output", "text", "message", "content">>
  IN  <<Field(answer, "anthropic_direct.claude-v4-6-sonnet")>>
        \o ValuesOf(answer)
        \o [n \in 1..Len(names) |-> Field(data, names[n])]
        \o [n \in 1..Len(names) |-> Field(result, names[n])]

NotBlank(v) == v.t = "str" /\ \E i \in 1..Len(v.s) : v.s[i] \notin {" ", "\n"}

\* the first candidate that is a string and not blank, trimmed; <<>> if none
FirstAnswer(data) ==
  LET c == AnswerCandidates(data)
      hits == { n \in 1..Len(c) : NotBlank(c[n]) }
  IN  IF hits = {} THEN <<>> ELSE strip(c[MinOf(hits)].s)

Cex_C18_FirstNonEmptyStringWins ==
  (ApiDone /\ h_resp.kind = "ok" /\ h_resp.json) =>
    IF FirstAnswer(h_resp.data) # <<>>
    THEN h_api.raises = None /\ h_api.answer = FirstAnswer(h_resp.data)
    ELSE h_api.raises # None /\ h_api.answer = <<>>

\* C19: under the one kind RuntimeError each of the three failures has its
\* own message: a timeout the timed-out message, an HTTP error status the
\* status code and at most the first 400 characters of the body, any other
\* request failure the request-failed message; none of them passes
\* silently and the stored token is not touched.
IsPrefixOf(a, b) == Len(a) <= Len(b) /\ a = SubSeq(b, 1, Len(a))

Thm_C19_ThreeFailuresThreeMessages ==
  ApiDone =>
    /\ h_resp.kind = "timeout" =>
         /\ h_api.raises = "RuntimeError"
         /\ h_api.msg = <<"TR Inference API request timed out (120 s).">>
    /\ h_resp.kind = "http" =>
         /\ h_api.raises = "RuntimeError"
         /\ Len(h_api.msg) >= 3
         /\ SubSeq(h_api.msg, 1, 3) = <<"TR Inference API HTTP error ", h_resp.status, ": ">>
         /\ IsPrefixOf(SubSeq(h_api.msg, 4, Len(h_api.msg)), h_resp.body)
         /\ Len(h_api.msg) - 3 = (IF Len(h_resp.body) > 400 THEN 400 ELSE Len(h_resp.body))
    /\ h_resp.kind = "request" =>
         /\ h_api.raises = "RuntimeError"
         /\ h_api.msg = <<"TR Inference API request failed: ">> \o h_resp.body
    /\ h_resp.kind \in {"timeout", "http", "request"} =>
         (h_api.answer = <<>> /\ h_api.conv = _conversation_id)

\* an HTTP error whose body is longer than what is shown
Wit_C19_HttpBodyCut ==
  /\ ApiDone
  /\ h_resp.kind = "http"
  /\ h_resp.status = "500"
  /\ Len(h_resp.body) = 401
  /\ h_api.raises = "RuntimeError"
  /\ Len(h_api.msg) = 403

\* C20: from a text with N complete tool-call blocks _extract_tool_calls
\* returns N calls, in the order of the blocks, each with the description
\* and the trimmed statement of its block; from a text with no tool-call
\* markup it returns no call and _strip_tool_calls returns the text trimmed.
ParseDone == h_parse.done

CompleteBlocks == {"select", "drop", "with", "empty described", "blank described"}

CallOf(name) ==
  CASE name = "select" -> [description |-> <<"Top customers">>, sql |-> SQL_SELECT]
    [] name = "drop" -> [description |-> <<"Running query...">>, sql |-> SQL_DROP]
    [] name = "with" -> [description |-> <<"Second">>, sql |-> <<"w", "i", "t", "h", " ", "x">>]
    [] name = "empty described" ->
         [description |-> <<"Running query...">>, sql |-> <<"s", "e", "l", "e", "c", "t", " ", "2">>]
    [] name = "blank described" ->
         [description |-> <<>>, sql |-> <<"s", "e", "l", "e", "c", "t", " ", "3">>]

RECURSIVE CallsOf(_)
CallsOf(parts) ==
  IF parts = <<>> THEN <<>>
  ELSE (IF Head(parts) \in CompleteBlocks THEN <<CallOf(Head(parts))>> ELSE <<>>)
         \o CallsOf(Tail(parts))

OnlyProse(parts) == \A n \in 1..Len(parts) : parts[n] \in {"prose", "blank"}

Trimmed(text) ==
  LET keep == { i \in 1..Len(text) : text[i] \notin {" ", "\n"} }
  IN  IF keep = {} THEN <<>>
      ELSE SubSeq(text, MinOf(keep), CHOOSE m \in keep : \A k \in keep : k <= m)

Cex_C20_EveryCompleteBlockExtracted ==
  ParseDone =>
    /\ h_parse.calls = CallsOf(h_parts)
    /\ OnlyProse(h_parts) =>
         (h_parse.calls = <<>> /\ h_parse.stripped = Trimmed(TextOf(h_parts)))

\* C21: a tool-call block whose opening tag has no closing tag of its own is
\* not matched by _extract_tool_calls and is left verbatim by
\* _strip_tool_calls, also when a complete block follows it later in the
\* text: the calls are those of the complete blocks, each with its own
\* statement, and the prose between the two is kept.
UnclosedBlocks == {"broken described", "broken sql"}

HasUnclosed(parts) == \E n \in 1..Len(parts) : parts[n] \in UnclosedBlocks

\* the parts that are not a closed tool_call element
RECURSIVE OutsideClosedBlocks(_)
OutsideClosedBlocks(parts) ==
  IF parts = <<>> THEN <<>>
  ELSE (IF Head(parts) \in CompleteBlocks \cup {"residual"} THEN <<>> ELSE <<Head(parts)>>)
         \o OutsideClosedBlocks(Tail(parts))

Cex_C21_UnclosedBlockLeftAlone ==
  (ParseDone /\ HasUnclosed(h_parts)) =>
    /\ h_parse.calls = CallsOf(h_parts)
    /\ h_parse.stripped = Trimmed(TextOf(OutsideClosedBlocks(h_parts)))

\* C22 (as stated): _strip_tool_calls removes the blocks _extract_tool_calls
\* matches and nothing else; a tool_call element without an sql element is
\* not removed.
RECURSIVE OutsideMatchedBlocks(_)
OutsideMatchedBlocks(parts) ==
  IF parts = <<>> THEN <<>>
  ELSE (IF Head(parts) \in CompleteBlocks THEN <<>> ELSE <<Head(parts)>>)
         \o OutsideMatchedBlocks(Tail(parts))

Cex_C22_OnlyMatchedBlocksRemoved ==
  (ParseDone /\ ~HasUnclosed(h_parts)) =>
    h_parse.stripped = Trimmed(TextOf(OutsideMatchedBlocks(h_parts)))

\* C22 (amended): _strip_tool_calls removes every stretch from an opening
\* tool_call tag to the nearest closing tool_call tag after it, matched by
\* _extract_tool_calls or not: an element without sql goes, and an unclosed
\* block goes together with all text up to the end of the next closed
\* element; all text outside such stretches survives, trimmed at the ends.
ClosedElements == CompleteBlocks \cup {"residual"}

\* the parts, or rests of parts, that lie outside every such stretch
RECURSIVE OutsideStretches(_)
OutsideStretches(parts) ==
  IF parts = <<>> THEN <<>>
  ELSE IF Head(parts) \in ClosedElements THEN OutsideStretches(Tail(parts))
  ELSE IF Head(parts) \in UnclosedBlocks
          /\ \E k \in 2..Len(parts) : parts[k] \in ClosedElements
       THEN LET k == MinOf({ n \in 2..Len(parts) : parts[n] \in ClosedElements })
            IN  OutsideStretches(SubSeq(parts, k + 1, Len(parts)))
       ELSE <<Head(parts)>> \o OutsideStretches(Tail(parts))

Thm_C22_EveryClosedStretchRemoved ==
  ParseDone => h_parse.stripped = Trimmed(TextOf(OutsideStretches(h_parts)))

\* prose, an element without sql, a matched block: only the prose is left
Wit_C22_ElementWithoutSqlRemoved ==
  /\ ParseDone
  /\ h_parts = <<"prose", "residual", "select">>
  /\ h_parse.stripped = <<"Checking.">>
  /\ Len(h_parse.calls) = 1

\* C30: _extract_tool_calls gives a block the default description exactly
\* when the block has no description element or an empty one; every other
\* block gets the text of its own description element, trimmed (for an
\* element of blanks only that is the empty text).  Stated for texts in which
\* every tool_call element is closed.
RECURSIVE BlocksOf(_)
BlocksOf(parts) ==
  IF parts = <<>> THEN <<>>
  ELSE (IF Head(parts) \in CompleteBlocks THEN <<Head(parts)>> ELSE <<>>)
         \o BlocksOf(Tail(parts))

HasDescriptionElement(block) == \E p \in 1..Len(block) : block[p] \in DESC_OPEN

\* the text between <description> and </description> of a block that has both
DescriptionElement(block) ==
  LET p == MinOf({ i \in 1..Len(block) : block[i] \in DESC_OPEN })
      q == MinOf({ i \in (p + 1)..Len(block) : block[i] \in DESC_CLOSE })
  IN  SubSeq(block, p + 1, q - 1)

SuppliesNoDescription(block) ==
  ~HasDescriptionElement(block) \/ DescriptionElement(block) = <<>>

InBlock(text, i) ==
  \/ text[i] \in TC_CLOSE
  \/ \E a \in 1..i : text[a] \in TC_OPEN /\ \A k \in a..i : text[k] \notin TC_CLOSE

\* the text outside the tool-call elements of a response, trimmed
RECURSIVE OutsideBlocksFrom(_, _)
OutsideBlocksFrom(text, i) ==
  IF i > Len(text) THEN <<>>
  ELSE (IF InBlock(text, i) THEN <<>> ELSE <<text[i]>>) \o OutsideBlocksFrom(text, i + 1)

Fragment(text) == Trimmed(OutsideBlocksFrom(text, 1))

Count(seq, token) == Cardinality({ i \in 1..Len(seq) : seq[i] = token })

EndsWith(s, suffix) ==
  Len(suffix) <= Len(s) /\ SubSeq(s, Len(s) - Len(suffix) + 1, Len(s)) = suffix

Wit_C23_NoFragment ==
  /\ pc = "call"
  /\ iteration = 1
  /\ Fragment(response_text) = <<>>
  /\ Count(current_query, "Your earlier analysis:") = 0
  /\ Count(current_query, "[Result for: ") = 1

\* C28 (as stated): every tool call that ask() executes has its result or
\* error in the payload of a later inference call of the same ask(): when
\* ask() returns, no execute_sql call is left that no inference call
\* followed, also in the last permitted iteration.
Cex_C28_EveryResultReachesTheModel == pc = "done" => execs = 0

\* C28 (amended): the tool calls run in an iteration before the last have
\* their result or error, one entry each, in the payload of the next
\* inference call; the tool calls of the last permitted iteration are run
\* and then ask() returns the fallback answer, their results sent to nobody;
\* an ask() that raises after a query was left by json.dumps, not by the API.
EntryHeader(call) == <<"\n", "[Result for: ">> \o call.description \o <<"]", "\n">>

Thm_C28_ResultsSentButForLastIteration ==
  /\ (pc = "call" /\ iteration > 0) =>
       /\ execs = Len(tool_calls)
       /\ Len(ran) = execs
       /\ Count(current_query, "[Result for: ") = execs
       /\ \A n \in 1..Len(ran) :
            /\ ran[n] = tool_calls[n].sql
            /\ \/ Contains(current_query, EntryHeader(tool_calls[n]) \o <<"ERROR: ">>)
               \/ Contains(current_query, EntryHeader(tool_calls[n]) \o <<"[fence]json">>)
  /\ (pc = "done" /\ execs > 0) =>
       /\ iteration = MAX_LOOPS
       /\ api_calls = MAX_LOOPS
       /\ ret = FALLBACK_ANSWER
  /\ (pc = "raised" /\ execs > 0) => (last_call = None /\ exc = "TypeError")

\* the query of the fifth response was run and ask() returned the fallback
Wit_C28_LastIterationResultsDropped ==
  /\ pc = "done"
  /\ iteration = MAX_LOOPS
  /\ execs = 1
  /\ _query_count = MAX_LOOPS
  /\ ret = FALLBACK_ANSWER
  /\ Count(current_query, "[Result for: ") = 1

\* C27: execute_sql adds one to the query counter only when the statement
\* ran and its rows were fetched: a call that is rejected by the allow-list,
\* that fails in the engine or that meets an unexpected exception leaves
\* _query_count as it was, so the counter counts the calls that returned a
\* rows-shaped result, not the calls attempted.
Thm_C27_CounterOnlyOnFetchedRows ==
  /\ ~SqlReturned => _query_count = 0
  /\ SqlReturned =>
       /\ (_query_count = 1) <=> ("rows" \in DOMAIN h_out.result)
       /\ (_query_count = 0) <=> ("error" \in DOMAIN h_out.result)
       /\ h_out.result = [error |-> ALLOWLIST_ERROR] => _query_count = 0
       /\ h_eng.kind \in {"ProgrammingError", "Exception"} => _query_count = 0

\* a permitted statement failed in the engine: called, not counted
Wit_C27_EngineFailureNotCounted ==
  /\ SqlReturned
  /\ h_out.executed # <<>>
  /\ h_eng.kind = "ProgrammingError"
  /\ h_out.result = [error |-> <<"SQL compilation error">>]
  /\ _query_count = 0

\* C26 (as stated): a failed inference call leaves the stored session token
\* as it was: whenever _call_api raises, _conversation_id after the call is
\* its value before the call.
ApiCallFailed == h_api.raises = "unset" /\ h_api'.raises \notin {"unset", None}

Cex_C26_FailedCallKeepsToken ==
  [][ApiCallFailed => _conversation_id' = _conversation_id]_vars

\* C26 (amended): when _call_api raises on a timeout, an HTTP error, a
\* transport failure or a body that does not decode, the stored token is as
\* before; when it raises on a decoded response (no answer found, or a value
\* of the wrong type), a token the response carries has replaced the stored
\* one before the raise, and without such a token the stored one is as before.
Decoded(resp) == resp.kind = "ok" /\ resp.json

Thm_C26_TokenOfFailedCall ==
  [][ApiCallFailed =>
       _conversation_id' = IF Decoded(h_resp) /\ HasToken(h_resp.data)
                           THEN TokenIn(h_resp.data)
                           ELSE _conversation_id]_vars

\* no answer in the response, the call raised, the token of the response is stored
Wit_C26_TokenStoredByFailedCall ==
  /\ ApiDone
  /\ h_api.raises = "RuntimeError"
  /\ Decoded(h_resp)
  /\ HasToken(h_resp.data)
  /\ TokenIn(h_resp.data) = JStr(<<"conv-1">>)
  /\ _conversation_id = JStr(<<"conv-1">>)

\* the global connection is set and open
GlobalOpen == _connection # NoConnection /\ connections[_connection] = "open"

\* C24: the backend shares one warehouse connection among all requests and
\* does not serialize them: a request that finds the global connection open
\* makes none of its own and works on the global one, a request that is
\* ready to execute its statement never waits for another request, and with
\* two concurrent requests both can have a statement executing on the same
\* connection at the same time.
Thm_C24_SharedConnectionNotSerialized ==
  /\ [](\A t \in Threads : req_pc[t] = "cursor" => ENABLED ExecuteStart(t))
  /\ [][\A t \in Threads :
          (req_pc[t] = "get_connection" /\ req_pc'[t] # "get_connection" /\ GlobalOpen) =>
            (req_pc'[t] = "return" /\ connections' = connections)]_vars
  /\ [][\A t \in Threads :
          (req_pc[t] = "return" /\ req_pc'[t] = "cursor") => req_conn'[t] = _connection]_vars

\* both threads inside cursor.execute on the one connection made at start-up
Wit_C24_TwoStatementsOnOneConnection ==
  /\ req_pc = [t \in Threads |-> "executing"]
  /\ \A t \in Threads : req_conn[t] = 1
  /\ Len(connections) = 1

\* C25: the question-answering path of the backend runs model-generated SQL
\* read-only, like the core: a statement reaches the warehouse only if it
\* begins with SELECT or WITH, and at most MAX_ROWS rows are fetched.
Cex_C25_BackendReadOnly ==
  \A t \in Threads :
    /\ req_pc[t] \in {"executing", "answer"} =>
         StartsWithKeyword(TrimBlanksAndParens(req_sql[t]))
    /\ req_rows[t] <= MAX_ROWS

\* the connections made so far that are open
OpenConnections == { c \in 1..Len(connections) : connections[c] = "open" }

\* C29: get_connection makes a new connection only when there is none or
\* the existing one is closed, so at most one open connection exists at any
\* time, also when two requests call get_connection at the same time while
\* the global is unset.
Cex_C29_AtMostOneOpenConnection == Cardinality(OpenConnections) <= 1

====
